---- MODULE Spec2Model ----
(***************************************************************************)
(* Insurance policy recommendation pipeline: feature derivation,           *)
(* eligibility filtering, ensemble scoring, coverage-gap analysis and the  *)
(* bounded gap bonus for riders.                                           *)
(*                                                                         *)
(* Numbers.  The source computes with floats; the model computes with the  *)
(* exact rationals those floats stand for, as integers over a fixed unit:  *)
(*   - a BMI is in tenths (24.8 is 248);                                   *)
(*   - a cosine similarity is in hundredths (-100 .. 100);                 *)
(*   - policy sub-scores are in units of 1/PolicySubUnit(policy_data),     *)
(*     policy component scores in units of 1/PolicyCompUnit(policy_data),  *)
(*     a policy final score in units of 1/PolicyFinalUnit(policy_data);    *)
(*   - rider sub-scores are in units of 1/RiderSubUnit, rider component    *)
(*     scores in units of 1/RiderCompUnit, rider final scores and the gap  *)
(*     bonus in units of 1/RiderFinalUnit;                                 *)
(*   - weights are in hundredths (0.35 is 35), criticalities in hundredths;*)
(*   - a coverage ratio is the pair <<numerator, denominator>>.            *)
(* Two scores that are equal as rationals may differ in the last float bit *)
(* in the source; the order of such tied riders is the stable order here.  *)
(***************************************************************************)
EXTENDS Integers, Sequences, FiniteSets, TLC

Min(a, b) == IF a <= b THEN a ELSE b

Abs(x) == IF x < 0 THEN -x ELSE x

Range(s) == {s[i] : i \in 1..Len(s)}

(***************************************************************************)
(* Static catalogs                                                         *)
(***************************************************************************)

\* data/policies.py: the catalog in dict (insertion) order.
PolicyOrder ==
  <<"FlexLife", "Life+", "Health360", "Pension Advantage", "ClickLife", "Union Protect">>

\* The "text" of an entry is modelled by the set of the substrings the code
\* searches for that occur in it: "ClickLife" and "FlexLife" for policies
\* (no policy text contains its own product name).
POLICIES ==
  [p \in Range(PolicyOrder) |->
    CASE p = "FlexLife" ->
           [text |-> {}, age_range |-> <<25, 60>>, income_band |-> {"Mid", "High"},
            goals |-> {"Savings", "Stable income", "Retirement with liquidity"},
            employment_types |-> {"Permanent", "Self-Employed"},
            requires_employer |-> FALSE,
            attachable_riders |-> {"Hospitalisation", "Critical Illness", "TPD", "ADB",
                                   "Spouse Benefit", "Child Health",
                                   "Income Protection", "Premium Waiver"}]
      [] p = "Life+" ->
           [text |-> {}, age_range |-> <<18, 65>>, income_band |-> {"Low", "Mid", "High"},
            goals |-> {"Family protection", "Income replacement"},
            employment_types |-> {"Permanent", "Self-Employed", "Contract"},
            requires_employer |-> FALSE,
            attachable_riders |-> {"Hospital Cash", "Critical Illness", "Surgery Benefit",
                                   "Disability Income", "ADB", "Child Health",
                                   "Spouse Benefit", "Funeral Benefit"}]
      [] p = "Health360" ->
           [text |-> {}, age_range |-> <<0, 80>>, income_band |-> {"Low", "Mid", "High"},
            goals |-> {"Medical coverage"},
            employment_types |-> {"Any"},
            requires_employer |-> FALSE,
            attachable_riders |-> {"OPD", "Maternity", "Organ Transplant",
                                   "Overseas Treatment", "Chronic Medication"}]
      [] p = "Pension Advantage" ->
           [text |-> {}, age_range |-> <<40, 65>>, income_band |-> {"Mid", "High"},
            goals |-> {"Retirement"},
            employment_types |-> {"Permanent", "Self-Employed"},
            requires_employer |-> FALSE,
            attachable_riders |-> {"Health360 Add-on", "Critical Illness", "Premium Waiver"}]
      [] p = "ClickLife" ->
           [text |-> {}, age_range |-> <<18, 40>>, income_band |-> {"Low", "Mid"},
            goals |-> {"Simple life cover", "Cheap & quick"},
            employment_types |-> {"Any"},
            requires_employer |-> FALSE,
            attachable_riders |-> {"ADB", "Cancer Care"}]
      [] p = "Union Protect" ->
           [text |-> {}, age_range |-> <<18, 65>>, income_band |-> {"Low", "Mid", "High"},
            goals |-> {"Employer benefits", "Group coverage"},
            employment_types |-> {"Permanent"},
            requires_employer |-> TRUE,
            attachable_riders |-> {"Group ADB", "Group Disability",
                                   "Group Critical Illness", "Group Hospital Cash"}]]

\* data/riders.py: the catalog in dict (insertion) order.
RiderOrder ==
  <<"Hospitalisation", "OPD", "Chronic Medication", "Maternity", "Organ Transplant",
    "Overseas Treatment", "Critical Illness", "Cancer Care", "ADB", "TPD",
    "Disability Income", "Income Protection", "Premium Waiver", "Child Health",
    "Spouse Benefit", "Funeral Benefit", "Hospital Cash", "Group ADB",
    "Group Disability", "Group Critical Illness", "Group Hospital Cash">>

\* A rider's "text" is the set of the keywords of rule_based_score_rider
\* (lower case) that occur in its description.
RiderEntry(text, standalone, triggers) ==
  [text |-> text, standalone |-> standalone, triggers |-> triggers]

RIDERS ==
  [r \in Range(RiderOrder) |->
    CASE r = "Hospitalisation" -> RiderEntry({"hospital"}, FALSE, <<"any_medical", "dependents">>)
      [] r = "OPD" -> RiderEntry({}, TRUE, <<"chronic">>)
      [] r = "Chronic Medication" -> RiderEntry({"chronic"}, TRUE, <<"chronic">>)
      [] r = "Maternity" -> RiderEntry({}, FALSE, <<"female_childbearing_age">>)
      [] r = "Organ Transplant" -> RiderEntry({}, TRUE, <<"severe_organ_condition">>)
      [] r = "Overseas Treatment" ->
           RiderEntry({"medical"}, TRUE, <<"frequent_travel", "dual_citizenship">>)
      [] r = "Critical Illness" ->
           RiderEntry({"illness"}, FALSE, <<"cardio", "smoker", "bmi_high", "age_above_40">>)
      [] r = "Cancer Care" ->
           RiderEntry({}, TRUE, <<"cancer", "age_above_40", "family_cancer_risk">>)
      [] r = "ADB" -> RiderEntry({}, FALSE, <<"hazardous_job", "hazardous_activities">>)
      [] r = "TPD" -> RiderEntry({}, FALSE, <<"hazardous_job", "dependents">>)
      [] r = "Disability Income" -> RiderEntry({}, TRUE, <<"dependents", "high_income">>)
      [] r = "Income Protection" -> RiderEntry({}, TRUE, <<"dependents", "high_income">>)
      [] r = "Premium Waiver" -> RiderEntry({}, FALSE, <<"dependents", "retirement_goal">>)
      [] r = "Child Health" -> RiderEntry({"health", "child"}, FALSE, <<"dependents">>)
      [] r = "Spouse Benefit" -> RiderEntry({"spouse"}, FALSE, <<"married">>)
      [] r = "Funeral Benefit" -> RiderEntry({}, TRUE, <<"low_income", "dependents">>)
      [] r = "Hospital Cash" -> RiderEntry({"hospital"}, TRUE, <<"low_income", "medical_risk">>)
      [] r = "Group ADB" -> RiderEntry({}, FALSE, <<"group_policy">>)
      [] r = "Group Disability" -> RiderEntry({}, FALSE, <<"group_policy">>)
      [] r = "Group Critical Illness" -> RiderEntry({"illness"}, FALSE, <<"group_policy">>)
      [] r = "Group Hospital Cash" -> RiderEntry({"hospital"}, FALSE, <<"group_policy">>)]

\* data/coverage_mapping.py: the keys of RISK_TYPES.
RISK_TYPES ==
  {"death", "critical_illness", "disability", "hospitalization", "surgery",
   "chronic_care", "family_protection", "retirement", "outpatient", "maternity",
   "accident", "overseas_medical", "organ_transplant", "child_health", "funeral"}

POLICY_COVERAGE ==
  [p \in Range(PolicyOrder) |->
    CASE p = "FlexLife" -> {"death", "retirement", "family_protection"}
      [] p = "Life+" -> {"death", "family_protection"}
      [] p = "Health360" -> {"hospitalization", "surgery", "chronic_care",
                             "critical_illness", "family_protection"}
      [] p = "Pension Advantage" -> {"retirement", "death", "disability"}
      [] p = "ClickLife" -> {"death"}
      [] p = "Union Protect" -> {"death", "family_protection"}]

\* RIDER_COVERAGE has one key that RIDERS has not: "Surgery Benefit".
RIDER_COVERAGE ==
  [r \in Range(RiderOrder) \cup {"Surgery Benefit"} |->
    CASE r = "Hospitalisation" -> {"hospitalization", "surgery"}
      [] r = "OPD" -> {"outpatient"}
      [] r = "Chronic Medication" -> {"chronic_care"}
      [] r = "Maternity" -> {"maternity"}
      [] r = "Organ Transplant" -> {"organ_transplant"}
      [] r = "Overseas Treatment" -> {"overseas_medical"}
      [] r = "Critical Illness" -> {"critical_illness"}
      [] r = "Cancer Care" -> {"critical_illness", "chronic_care"}
      [] r = "ADB" -> {"accident", "death"}
      [] r = "TPD" -> {"disability"}
      [] r = "Disability Income" -> {"disability", "family_protection"}
      [] r = "Income Protection" -> {"disability", "family_protection"}
      [] r = "Premium Waiver" -> {"disability"}
      [] r = "Child Health" -> {"child_health", "family_protection"}
      [] r = "Spouse Benefit" -> {"family_protection"}
      [] r = "Funeral Benefit" -> {"funeral", "family_protection"}
      [] r = "Hospital Cash" -> {"hospitalization"}
      [] r = "Surgery Benefit" -> {"surgery"}
      [] r = "Group ADB" -> {"accident", "death"}
      [] r = "Group Disability" -> {"disability"}
      [] r = "Group Critical Illness" -> {"critical_illness"}
      [] r = "Group Hospital Cash" -> {"hospitalization"}]

(***************************************************************************)
(* features/feature_engineering.py                                         *)
(***************************************************************************)

\* A ladder that tests the chronic/respiratory rung first.
medical_risk_level_chronic_first(cancer, cardio, chronic, respiratory, any_medical) ==
  IF chronic \/ respiratory THEN "High"
  ELSE IF cancer \/ cardio THEN "Very High"
  ELSE IF any_medical THEN "Medium"
  ELSE "Low"

\* The ladder of derive_features that sets features["medical_risk"].
medical_risk_level(cancer, cardio, chronic, respiratory, any_medical) ==
  IF cancer \/ cardio THEN "Very High"
  ELSE IF chronic \/ respiratory THEN "High"
  ELSE IF any_medical THEN "Medium"
  ELSE "Low"

\* Python's None, as user.get(key) yields it for an absent key.
PyNone == "<None>"

\* user.get(key, default)
UserGet(user, key, default) == IF key \in DOMAIN user THEN user[key] ELSE default

\* The keys derive_features subscripts (user[key]), in the order of their first read.
SubscriptedFields ==
  <<"age_nearest_bday", "monthly_income", "dependents_count", "marital_status",
    "employment_type", "hazardous_level", "hazardous_activities",
    "chronic_disease", "cardiovascular_health_issue", "cancer_or_tumors",
    "respiratory_conditions", "neurological_or_mental_health_conditions",
    "gastrointestinal_conditions", "musculoskeletal_conditions",
    "infectious_or_sexual_health_conditions", "bmi", "smoker", "alcohol_consumer",
    "gender", "primary_goal", "travel_history_high_risk_countries", "dual_citizenship",
    "tax_or_regulatory_flags", "existing_insurance", "insurance_history_issues",
    "current_insurance_status">>

\* The keys derive_features reads with user.get, which yields a default when absent.
DefaultedFields == {"employer_scheme", "secondary_goal"}

\* derive_features(user): every key the function sets, in source order.
derive_features(user) ==
  LET age == user.age_nearest_bday
      income == user.monthly_income
      income_band == IF income < 50000 THEN "Low"
                     ELSE IF income < 150000 THEN "Mid" ELSE "High"
      dependents == user.dependents_count > 0
      married == user.marital_status = "Married"
      chronic == user.chronic_disease
      cardio == user.cardiovascular_health_issue
      cancer == user.cancer_or_tumors
      respiratory == user.respiratory_conditions
      neuro_mental == user.neurological_or_mental_health_conditions
      gastro == user.gastrointestinal_conditions
      musculoskeletal == user.musculoskeletal_conditions
      infectious == user.infectious_or_sexual_health_conditions
      any_medical == chronic \/ cardio \/ cancer \/ respiratory \/ neuro_mental
                     \/ gastro \/ musculoskeletal \/ infectious
      female == user.gender = "Female"
  IN [age |-> age,
      age_above_40 |-> age >= 40,
      age_above_45 |-> age >= 45,
      young |-> age < 35,
      senior |-> age >= 60,
      income_band |-> income_band,
      low_income |-> income_band = "Low",
      mid_income |-> income_band = "Mid",
      high_income |-> income_band = "High",
      dependents |-> dependents,
      dependents_count |-> user.dependents_count,
      married |-> married,
      family_responsibility |-> married \/ dependents,
      employment_type |-> user.employment_type,
      hazardous_job |-> user.hazardous_level \in {"Medium", "High"},
      hazardous_activities |-> user.hazardous_activities # "",
      group_policy |-> user.employment_type = "Permanent"
                         /\ UserGet(user, "employer_scheme", FALSE),
      chronic |-> chronic,
      cardio |-> cardio,
      cancer |-> cancer,
      respiratory |-> respiratory,
      neuro_mental |-> neuro_mental,
      gastro |-> gastro,
      musculoskeletal |-> musculoskeletal,
      infectious |-> infectious,
      any_medical |-> any_medical,
      medical_risk |-> medical_risk_level(cancer, cardio, chronic, respiratory, any_medical),
      bmi |-> user.bmi,
      bmi_high |-> user.bmi >= 300,
      underweight |-> user.bmi < 185,
      smoker |-> user.smoker = "Yes",
      alcohol_consumer |-> user.alcohol_consumer = "Yes",
      female |-> female,
      female_childbearing_age |-> female /\ 22 <= age /\ age <= 42,
      primary_goal |-> user.primary_goal,
      secondary_goal |-> UserGet(user, "secondary_goal", PyNone),
      goal_family_protection |-> user.primary_goal \in {"Family protection", "Income replacement"},
      goal_retirement |-> user.primary_goal = "Retirement",
      goal_savings |-> user.primary_goal \in {"Savings", "Stable income", "Retirement with liquidity"},
      goal_medical |-> user.primary_goal = "Medical coverage",
      frequent_travel |-> user.travel_history_high_risk_countries,
      dual_citizenship |-> user.dual_citizenship,
      tax_or_regulatory_flags |-> user.tax_or_regulatory_flags,
      existing_insurance |-> user.existing_insurance = "Yes",
      insurance_history_issues |-> user.insurance_history_issues,
      current_insurance_status |-> user.current_insurance_status]

\* A call of derive_features: user[key] raises KeyError(key) at the first
\* subscripted key that is absent, and nothing is returned; otherwise the
\* features are returned.
derive_features_call(user) ==
  LET missing == {i \in 1..Len(SubscriptedFields) : SubscriptedFields[i] \notin DOMAIN user}
  IN IF missing # {}
     THEN [kind |-> "KeyError",
           key |-> SubscriptedFields[CHOOSE i \in missing : \A j \in missing : i <= j]]
     ELSE [kind |-> "return", value |-> derive_features(user)]

\* The feature keys whose value is a string or a number (the others are booleans).
StringFeatures ==
  {"income_band", "employment_type", "medical_risk", "primary_goal", "secondary_goal",
   "current_insurance_status"}

NumberFeatures == {"age", "dependents_count", "bmi"}

\* A truth value that only a boolean feature can have: a string or a number
\* counts as false.
FeatureTruthyFlagsOnly(features, t) ==
  IF t \notin DOMAIN features THEN FALSE
  ELSE IF t \in StringFeatures \cup NumberFeatures THEN FALSE
  ELSE features[t]

\* features.get(t, False) taken as a truth value, as `any(...)` and a list
\* comprehension's `if` take it: an absent key is False, a string is true when it
\* is not empty, a number when it is not zero.
FeatureTruthy(features, t) ==
  IF t \notin DOMAIN features THEN FALSE
  ELSE IF t \in StringFeatures THEN features[t] # "" /\ features[t] # PyNone
  ELSE IF t \in NumberFeatures THEN features[t] # 0
  ELSE features[t]

(***************************************************************************)
(* rules/policy_filter.py, rules/rider_filter.py, recommender.py (relaxed) *)
(***************************************************************************)

\* One iteration of filter_policies' loop: TRUE when no `continue` is taken.
StrictPolicyPasses(policy_name, features) ==
  LET policy == POLICIES[policy_name]
  IN /\ policy.age_range[1] <= features.age /\ features.age <= policy.age_range[2]
     /\ features.income_band \in policy.income_band
     /\ ("Any" \notin policy.employment_types
           => features.employment_type \in policy.employment_types)
     /\ features.primary_goal \in policy.goals
     /\ ~(policy_name = "ClickLife" /\ features.medical_risk # "Low")
     /\ ~(policy_name = "FlexLife" /\ features.medical_risk = "Very High")
     /\ ~(policy_name = "Life+" /\ ~features.family_responsibility)
     /\ ~(policy_name = "Pension Advantage"
            /\ ~features.goal_retirement /\ ~features.age_above_45)
     /\ ~(policy.requires_employer /\ ~features.group_policy)
     /\ ~(policy_name = "Health360"
            /\ ~features.goal_medical /\ features.existing_insurance)

filter_policies(features) ==
  LET keep(policy_name) == StrictPolicyPasses(policy_name, features)
  IN SelectSeq(PolicyOrder, keep)

\* A relaxed loop that still matches the primary goal.
RelaxedPolicyPassesWithGoal(policy_name, features) ==
  LET policy == POLICIES[policy_name]
  IN /\ policy.age_range[1] <= features.age /\ features.age <= policy.age_range[2]
     /\ features.income_band \in policy.income_band
     /\ ("Any" \notin policy.employment_types
           => features.employment_type \in policy.employment_types)
     /\ features.primary_goal \in policy.goals
     /\ ~(policy_name = "ClickLife" /\ features.medical_risk # "Low")
     /\ ~(policy_name = "FlexLife" /\ features.medical_risk = "Very High")
     /\ ~(policy.requires_employer /\ ~features.group_policy)

\* A relaxed loop without the product medical-risk exclusions.
RelaxedPolicyPassesNoMedical(policy_name, features) ==
  LET policy == POLICIES[policy_name]
  IN /\ policy.age_range[1] <= features.age /\ features.age <= policy.age_range[2]
     /\ features.income_band \in policy.income_band
     /\ ("Any" \notin policy.employment_types
           => features.employment_type \in policy.employment_types)
     /\ ~(policy.requires_employer /\ ~features.group_policy)

\* A relaxed loop whose age test leaves out the two ends of the range.
RelaxedPolicyPassesExclusiveAge(policy_name, features) ==
  LET policy == POLICIES[policy_name]
  IN /\ policy.age_range[1] < features.age /\ features.age < policy.age_range[2]
     /\ features.income_band \in policy.income_band
     /\ ("Any" \notin policy.employment_types
           => features.employment_type \in policy.employment_types)
     /\ ~(policy_name = "ClickLife" /\ features.medical_risk # "Low")
     /\ ~(policy_name = "FlexLife" /\ features.medical_risk = "Very High")
     /\ ~(policy.requires_employer /\ ~features.group_policy)

\* One iteration of the relaxed loop of recommend (goal matching ignored).
RelaxedPolicyPasses(policy_name, features) ==
  LET policy == POLICIES[policy_name]
  IN /\ policy.age_range[1] <= features.age /\ features.age <= policy.age_range[2]
     /\ features.income_band \in policy.income_band
     /\ ("Any" \notin policy.employment_types
           => features.employment_type \in policy.employment_types)
     /\ ~(policy_name = "ClickLife" /\ features.medical_risk # "Low")
     /\ ~(policy_name = "FlexLife" /\ features.medical_risk = "Very High")
     /\ ~(policy.requires_employer /\ ~features.group_policy)

\* A relaxed pass that falls back to the first catalog policy when nothing passes.
relaxed_candidates_forced(features) ==
  LET keep(policy_name) == RelaxedPolicyPasses(policy_name, features)
  IN IF SelectSeq(PolicyOrder, keep) = <<>>
     THEN <<PolicyOrder[1]>>
     ELSE SelectSeq(PolicyOrder, keep)

relaxed_candidates(features) ==
  LET keep(policy_name) == RelaxedPolicyPasses(policy_name, features)
  IN SelectSeq(PolicyOrder, keep)

\* A filter that asks for every trigger instead of any.
filter_riders_all_triggers(policy_name, policy_data, features) ==
  LET keep(name) ==
        /\ ~(~RIDERS[name].standalone /\ name \notin policy_data.attachable_riders)
        /\ \A i \in 1..Len(RIDERS[name].triggers) :
             FeatureTruthy(features, RIDERS[name].triggers[i])
  IN SelectSeq(RiderOrder, keep)

filter_riders(policy_name, policy_data, features) ==
  LET keep(name) ==
        /\ ~(~RIDERS[name].standalone /\ name \notin policy_data.attachable_riders)
        /\ \E i \in 1..Len(RIDERS[name].triggers) :
             FeatureTruthy(features, RIDERS[name].triggers[i])
  IN SelectSeq(RiderOrder, keep)

(***************************************************************************)
(* data/coverage_mapping.py, analysis/coverage_gaps.py                     *)
(***************************************************************************)

\* The module-level catalog objects of the running process.  The coverage
\* functions read the two coverage maps through it: what they return is the set
\* object stored in the map, not a copy.
VARIABLE catalogs

\* The catalogs as the modules define them at import.
StaticCatalogs ==
  [POLICIES |-> POLICIES,
   RIDERS |-> RIDERS,
   POLICY_COVERAGE |-> POLICY_COVERAGE,
   RIDER_COVERAGE |-> RIDER_COVERAGE,
   RISK_TYPES |-> RISK_TYPES]

get_policy_coverage(policy_name) ==
  IF policy_name \in DOMAIN catalogs.POLICY_COVERAGE
  THEN catalogs.POLICY_COVERAGE[policy_name] ELSE {}

get_rider_coverage(rider_name) ==
  IF rider_name \in DOMAIN catalogs.RIDER_COVERAGE
  THEN catalogs.RIDER_COVERAGE[rider_name] ELSE {}

\* The loop of get_combined_coverage: coverage.update(...) for each rider in turn.
RECURSIVE UpdateCoverage(_, _)
UpdateCoverage(coverage, rider_names) ==
  IF rider_names = <<>> THEN coverage
  ELSE UpdateCoverage(coverage \cup get_rider_coverage(Head(rider_names)), Tail(rider_names))

\* A combination that starts from an empty set instead of the policy's coverage.
get_combined_coverage_riders_only(policy_name, rider_names) ==
  UpdateCoverage({}, rider_names)

get_combined_coverage(policy_name, rider_names) ==
  UpdateCoverage(get_policy_coverage(policy_name), rider_names)

\* A combination that updates the set get_policy_coverage returned: the catalog
\* entry of a known policy, a new empty set for an unknown one.
CoverageObjectAliased(policy_name) ==
  IF policy_name \in DOMAIN catalogs.POLICY_COVERAGE THEN "catalog entry" ELSE "new set"

\* The object `coverage` of get_combined_coverage names: `.copy()` makes it a new set.
CoverageObject(policy_name) == "new set"

\* The catalogs after get_combined_coverage: coverage.update(...) writes to the
\* object `coverage` names.
CatalogsAfterCombinedCoverage(policy_name, rider_names) ==
  IF CoverageObject(policy_name) = "catalog entry"
  THEN [catalogs EXCEPT !.POLICY_COVERAGE[policy_name] =
                          get_combined_coverage(policy_name, rider_names)]
  ELSE catalogs

\* A ratio that counts every covered risk, also those the user does not face.
get_coverage_completeness_score_all_covered(covered_risks, total_risks) ==
  IF total_risks = {} THEN <<1, 1>>
  ELSE <<Cardinality(covered_risks), Cardinality(total_risks)>>

\* A ratio is <<numerator, denominator>>; 1.0 is <<1, 1>>.
get_coverage_completeness_score(covered_risks, total_risks) ==
  IF total_risks = {} THEN <<1, 1>>
  ELSE <<Cardinality(covered_risks \cap total_risks), Cardinality(total_risks)>>

\* A rule table whose age branch adds critical_illness alone.
identify_user_risks_short_age_branch(features) ==
  {"death"}
  \cup (IF features.dependents \/ features.married THEN {"family_protection"} ELSE {})
  \cup (IF features.dependents \/ features.family_responsibility THEN {"disability"} ELSE {})
  \cup (IF features.any_medical THEN {"hospitalization", "surgery"} ELSE {})
  \cup (IF features.chronic THEN {"chronic_care", "outpatient"} ELSE {})
  \cup (IF features.age_above_40 THEN {"critical_illness"} ELSE {})
  \cup (IF features.cardio \/ features.cancer \/ features.smoker \/ features.bmi_high
          THEN {"critical_illness"} ELSE {})
  \cup (IF features.hazardous_job \/ features.hazardous_activities
          THEN {"accident", "disability"} ELSE {})
  \cup (IF features.goal_retirement \/ features.age_above_45 THEN {"retirement"} ELSE {})
  \cup (IF FeatureTruthy(features, "female_childbearing_age") THEN {"maternity"} ELSE {})
  \cup (IF features.dependents THEN {"child_health"} ELSE {})
  \cup (IF FeatureTruthy(features, "frequent_travel")
             \/ FeatureTruthy(features, "dual_citizenship")
          THEN {"overseas_medical"} ELSE {})
  \cup (IF features.low_income /\ features.dependents THEN {"funeral"} ELSE {})

identify_user_risks(features) ==
  {"death"}
  \cup (IF features.dependents \/ features.married THEN {"family_protection"} ELSE {})
  \cup (IF features.dependents \/ features.family_responsibility THEN {"disability"} ELSE {})
  \cup (IF features.any_medical THEN {"hospitalization", "surgery"} ELSE {})
  \cup (IF features.chronic THEN {"chronic_care", "outpatient"} ELSE {})
  \cup (IF features.age_above_40 THEN {"critical_illness", "hospitalization"} ELSE {})
  \cup (IF features.cardio \/ features.cancer \/ features.smoker \/ features.bmi_high
          THEN {"critical_illness"} ELSE {})
  \cup (IF features.hazardous_job \/ features.hazardous_activities
          THEN {"accident", "disability"} ELSE {})
  \cup (IF features.goal_retirement \/ features.age_above_45 THEN {"retirement"} ELSE {})
  \cup (IF FeatureTruthy(features, "female_childbearing_age") THEN {"maternity"} ELSE {})
  \cup (IF features.dependents THEN {"child_health"} ELSE {})
  \cup (IF FeatureTruthy(features, "frequent_travel")
             \/ FeatureTruthy(features, "dual_citizenship")
          THEN {"overseas_medical"} ELSE {})
  \cup (IF features.low_income /\ features.dependents THEN {"funeral"} ELSE {})

find_coverage_gaps(user_risks, policy_coverage) == user_risks \ policy_coverage

\* A weight table without the default: a risk type that is not a key weighs nothing.
criticality_known_only(gap) ==
  CASE gap = "death" -> 100
    [] gap = "critical_illness" -> 95
    [] gap \in {"disability", "family_protection"} -> 90
    [] gap = "hospitalization" -> 85
    [] gap = "chronic_care" -> 80
    [] gap = "surgery" -> 75
    [] gap \in {"accident", "retirement"} -> 70
    [] gap = "maternity" -> 65
    [] gap = "child_health" -> 60
    [] gap = "outpatient" -> 50
    [] gap \in {"overseas_medical", "organ_transplant"} -> 40
    [] gap = "funeral" -> 30
    [] OTHER -> 0

\* criticality.get(gap, 0.5), in hundredths.
criticality(gap) ==
  CASE gap = "death" -> 100
    [] gap = "critical_illness" -> 95
    [] gap \in {"disability", "family_protection"} -> 90
    [] gap = "hospitalization" -> 85
    [] gap = "chronic_care" -> 80
    [] gap = "surgery" -> 75
    [] gap \in {"accident", "retirement"} -> 70
    [] gap = "maternity" -> 65
    [] gap = "child_health" -> 60
    [] gap = "outpatient" -> 50
    [] gap \in {"overseas_medical", "organ_transplant"} -> 40
    [] gap = "funeral" -> 30
    [] OTHER -> 50

RECURSIVE calculate_gap_priority(_)
calculate_gap_priority(gaps) ==
  IF gaps = {} THEN 0
  ELSE LET gap == CHOOSE g \in gaps : TRUE
       IN criticality(gap) + calculate_gap_priority(gaps \ {gap})

\* list.sort(key=..., reverse=True): a stable sort of s, highest key first, where
\* keys[i] is the key of s[i]; equal keys keep their order.
RECURSIVE SortDesc(_, _)
SortDesc(s, keys) ==
  IF s = <<>> THEN <<>>
  ELSE LET best == CHOOSE i \in 1..Len(s) :
                     /\ \A j \in 1..Len(s) : keys[j] <= keys[i]
                     /\ \A j \in 1..(i - 1) : keys[j] < keys[i]
           drop(t) == [j \in 1..(Len(t) - 1) |-> IF j < best THEN t[j] ELSE t[j + 1]]
       IN <<s[best]>> \o SortDesc(drop(s), drop(keys))

\* A loop without the `if filled_gaps:` test.
GapFillingNamesUnfiltered(coverage_gaps, available_riders) == available_riders

\* The riders the loop of prioritize_riders_for_gaps keeps: `if filled_gaps:`.
GapFillingNames(coverage_gaps, available_riders) ==
  LET fills(rider_name) == (get_rider_coverage(rider_name) \cap coverage_gaps) # {}
  IN SelectSeq(available_riders, fills)

prioritize_riders_for_gaps(coverage_gaps, available_riders) ==
  LET fillers == GapFillingNames(coverage_gaps, available_riders)
      entry(rider_name) ==
        LET filled_gaps == get_rider_coverage(rider_name) \cap coverage_gaps
        IN [rider_name |-> rider_name, filled_gaps |-> filled_gaps,
            priority_score |-> calculate_gap_priority(filled_gaps)]
      gap_filling_riders == [i \in 1..Len(fillers) |-> entry(fillers[i])]
  IN SortDesc(gap_filling_riders,
              [i \in 1..Len(fillers) |-> gap_filling_riders[i].priority_score])

\* An analysis that, when riders are selected, counts the riders' coverage alone.
analyze_coverage_completeness_riders_alone(features, policy_name, selected_riders) ==
  LET user_risks == identify_user_risks(features)
      policy_coverage == get_policy_coverage(policy_name)
      total_coverage == IF selected_riders # <<>>
                        THEN UpdateCoverage({}, selected_riders)
                        ELSE policy_coverage
      gaps == find_coverage_gaps(user_risks, total_coverage)
      coverage_ratio == IF user_risks # {}
                        THEN <<Cardinality(total_coverage \cap user_risks),
                               Cardinality(user_risks)>>
                        ELSE <<1, 1>>
  IN [user_risks |-> user_risks,
      policy_coverage |-> policy_coverage,
      total_coverage |-> total_coverage,
      covered_risks |-> total_coverage \cap user_risks,
      coverage_gaps |-> gaps,
      coverage_ratio |-> coverage_ratio]

\* The part of analyze_coverage_completeness that is not presentation.
analyze_coverage_completeness(features, policy_name, selected_riders) ==
  LET user_risks == identify_user_risks(features)
      policy_coverage == get_policy_coverage(policy_name)
      total_coverage == IF selected_riders # <<>>
                        THEN get_combined_coverage(policy_name, selected_riders)
                        ELSE policy_coverage
      gaps == find_coverage_gaps(user_risks, total_coverage)
      coverage_ratio == IF user_risks # {}
                        THEN <<Cardinality(total_coverage \cap user_risks),
                               Cardinality(user_risks)>>
                        ELSE <<1, 1>>
  IN [user_risks |-> user_risks,
      policy_coverage |-> policy_coverage,
      total_coverage |-> total_coverage,
      covered_risks |-> total_coverage \cap user_risks,
      coverage_gaps |-> gaps,
      coverage_ratio |-> coverage_ratio]

\* The catalogs after analyze_coverage_completeness: it calls
\* get_combined_coverage when riders are selected and writes nothing itself.
CatalogsAfterAnalysis(policy_name, selected_riders) ==
  IF selected_riders # <<>>
  THEN CatalogsAfterCombinedCoverage(policy_name, selected_riders)
  ELSE catalogs

(***************************************************************************)
(* scoring/component_scorers.py                                            *)
(***************************************************************************)

\* Units of the policy scores of one catalog entry: 1.0 is PolicySubUnit for a
\* sub-score (so that age_fit is exact), PolicyCompUnit for a component score,
\* PolicyFinalUnit for the final score.
AgeSpan(policy_data) == policy_data.age_range[2] - policy_data.age_range[1]

PolicySubUnit(policy_data) == 10 * AgeSpan(policy_data)

PolicyCompUnit(policy_data) == 100 * PolicySubUnit(policy_data)

PolicyFinalUnit(policy_data) == 100 * PolicyCompUnit(policy_data)

\* A constant given in tenths (7 is 0.7) as a policy sub-score.
SubTenths(x, policy_data) == x * AgeSpan(policy_data)

\* An age fit without the distance penalty.
age_fit_flat(features, policy_data) ==
  IF policy_data.age_range[1] <= features.age /\ features.age <= policy_data.age_range[2]
  THEN PolicySubUnit(policy_data)
  ELSE 0

\* 1.0 - (distance / max_distance * 0.3) with midpoint = (min + max) / 2,
\* distance = |age - midpoint|, max_distance = (max - min) / 2: that is
\* 1 - 3 * |2 * age - (min + max)| / (10 * (max - min)).
age_fit(features, policy_data) ==
  LET min_age == policy_data.age_range[1]
      max_age == policy_data.age_range[2]
      age == features.age
  IN IF min_age <= age /\ age <= max_age
     THEN PolicySubUnit(policy_data) - 3 * Abs(2 * age - (min_age + max_age))
     ELSE 0

income_order == <<"Low", "Mid", "High">>

IndexOf(s, x) == CHOOSE i \in 1..Len(s) : s[i] = x

income_fit(features, policy_data) ==
  IF features.income_band \in policy_data.income_band
  THEN SubTenths(10, policy_data)
  ELSE LET user_idx == IndexOf(income_order, features.income_band)
           policy_bands_idx == {IndexOf(income_order, b) : b \in policy_data.income_band}
           min_distance == CHOOSE d \in {Abs(user_idx - idx) : idx \in policy_bands_idx} :
                             \A idx \in policy_bands_idx : d <= Abs(user_idx - idx)
       IN IF min_distance = 1 THEN SubTenths(7, policy_data) ELSE SubTenths(3, policy_data)

goal_alignment(features, policy_data) ==
  IF features.primary_goal \in policy_data.goals THEN SubTenths(10, policy_data)
  ELSE IF UserGet(features, "secondary_goal", PyNone) \in policy_data.goals
       THEN SubTenths(5, policy_data)
  ELSE SubTenths(1, policy_data)

employment_fit(features, policy_data) ==
  IF "Any" \in policy_data.employment_types THEN SubTenths(10, policy_data)
  ELSE IF features.employment_type \in policy_data.employment_types
       THEN SubTenths(10, policy_data)
  ELSE SubTenths(2, policy_data)

\* A ladder lookup that never finds its key and returns the .get default.
medical_eligibility_default(features, policy_data) == SubTenths(8, policy_data)

\* The product-specific branches test the product name against the entry's text.
medical_eligibility(features, policy_data) ==
  LET medical_risk == features.medical_risk
  IN IF "ClickLife" \in policy_data.text
     THEN (IF medical_risk = "Low" THEN SubTenths(10, policy_data) ELSE 0)
     ELSE IF "FlexLife" \in policy_data.text
     THEN (IF medical_risk = "Very High" THEN 0
           ELSE IF medical_risk = "High" THEN SubTenths(5, policy_data)
           ELSE SubTenths(10, policy_data))
     ELSE CASE medical_risk = "Low" -> SubTenths(10, policy_data)
            [] medical_risk = "Medium" -> SubTenths(9, policy_data)
            [] medical_risk = "High" -> SubTenths(7, policy_data)
            [] medical_risk = "Very High" -> SubTenths(5, policy_data)
            [] OTHER -> SubTenths(8, policy_data)

\* The weights of rule_based_score_policy, in hundredths.
policy_rule_weights ==
  [age_fit |-> 25, income_fit |-> 20, goal_alignment |-> 35,
   employment_fit |-> 10, medical_eligibility |-> 10]

\* Returns (final_score, scores): score in component units, scores in sub-score units.
rule_based_score_policy(features, policy_data) ==
  LET scores == [age_fit |-> age_fit(features, policy_data),
                 income_fit |-> income_fit(features, policy_data),
                 goal_alignment |-> goal_alignment(features, policy_data),
                 employment_fit |-> employment_fit(features, policy_data),
                 medical_eligibility |-> medical_eligibility(features, policy_data)]
      w == policy_rule_weights
  IN [score |-> scores.age_fit * w.age_fit + scores.income_fit * w.income_fit
                + scores.goal_alignment * w.goal_alignment
                + scores.employment_fit * w.employment_fit
                + scores.medical_eligibility * w.medical_eligibility,
      breakdown |-> scores]

\* Units of the rider scores: 1.0 is RiderSubUnit for a sub-score (every trigger
\* ratio m/n of the catalog, n <= 4, is exact), RiderCompUnit for a component
\* score, RiderFinalUnit for a final score and for the gap bonus.
RiderSubUnit == 10 * 12

RiderCompUnit == 100 * RiderSubUnit

RiderFinalUnit == 100 * RiderCompUnit

\* [t for t in triggers if features.get(t, False)]
MatchedTriggers(features, triggers) ==
  LET hit(t) == FeatureTruthy(features, t)
  IN SelectSeq(triggers, hit)

rider_rule_weights == [trigger_match |-> 60, medical_relevance |-> 25, family_relevance |-> 15]

\* Returns (final_score, scores): score in component units, scores in sub-score units.
rule_based_score_rider(features, rider_data) ==
  LET triggers == rider_data.triggers
      matched_triggers == MatchedTriggers(features, triggers)
      trigger_match == IF triggers # <<>>
                       THEN (Len(matched_triggers) * RiderSubUnit) \div Len(triggers)
                       ELSE 5 * 12
      medical_relevance ==
        IF rider_data.text \cap {"hospital", "medical", "health", "chronic", "illness"} # {}
        THEN (IF features.any_medical \/ features.age_above_40 THEN 10 * 12 ELSE 5 * 12)
        ELSE 8 * 12
      family_relevance ==
        IF rider_data.text \cap {"child", "spouse", "family", "dependent"} # {}
        THEN (IF features.dependents \/ features.married THEN 10 * 12 ELSE 3 * 12)
        ELSE 8 * 12
      w == rider_rule_weights
  IN [score |-> trigger_match * w.trigger_match + medical_relevance * w.medical_relevance
                + family_relevance * w.family_relevance,
      breakdown |-> [trigger_match |-> trigger_match,
                     matched_triggers |-> IF triggers # <<>> THEN matched_triggers ELSE <<>>,
                     medical_relevance |-> medical_relevance,
                     family_relevance |-> family_relevance]]

\* Returns (strength, breakdown): strength in component units.
trigger_strength_score(features, triggers) ==
  IF triggers = <<>>
  THEN [score |-> RiderCompUnit \div 2,
        breakdown |-> [matched_triggers |-> <<>>, total_triggers |-> 0,
                       match_ratio |-> RiderCompUnit \div 2]]
  ELSE LET matched == MatchedTriggers(features, triggers)
           strength == (Len(matched) * RiderCompUnit) \div Len(triggers)
           unmatched(t) == t \notin Range(matched)
       IN [score |-> strength,
           breakdown |-> [matched_triggers |-> matched,
                          unmatched_triggers |-> SelectSeq(triggers, unmatched),
                          total_triggers |-> Len(triggers),
                          match_ratio |-> strength]]

\* What a call of a scorer yields when features may lack keys: the KeyError of the
\* first subscript features[key] that finds no key, else the scorer's result.
FirstKeyError(features, keys) ==
  LET missing == {i \in 1..Len(keys) : keys[i] \notin DOMAIN features}
  IN IF missing = {} THEN [kind |-> "none"]
     ELSE [kind |-> "KeyError", key |-> keys[CHOOSE i \in missing : \A j \in missing : i <= j]]

\* rule_based_score_policy subscripts age (line 17), income_band (30),
\* primary_goal (45), employment_type (56, unless the policy takes "Any") and
\* medical_risk (62); secondary_goal is read with .get.
rule_based_score_policy_call(features, policy_data) ==
  LET keys == <<"age", "income_band", "primary_goal">>
              \o (IF "Any" \in policy_data.employment_types THEN <<>>
                  ELSE <<"employment_type">>)
              \o <<"medical_risk">>
      error == FirstKeyError(features, keys)
  IN IF error.kind = "KeyError" THEN error
     ELSE [kind |-> "return", value |-> rule_based_score_policy(features, policy_data)]

\* rule_based_score_rider reads the triggers with .get and subscripts
\* any_medical (line 125) for a rider with a medical word in its text, then
\* age_above_40 when any_medical is false, and dependents (line 134) for a rider
\* with a family word, then married when dependents is false.
rule_based_score_rider_call(features, rider_data) ==
  LET medical == rider_data.text \cap {"hospital", "medical", "health", "chronic", "illness"} # {}
      family == rider_data.text \cap {"child", "spouse", "family", "dependent"} # {}
      medical_keys == IF ~medical THEN <<>>
                      ELSE IF "any_medical" \in DOMAIN features /\ features.any_medical
                      THEN <<"any_medical">>
                      ELSE <<"any_medical", "age_above_40">>
      family_keys == IF ~family THEN <<>>
                     ELSE IF "dependents" \in DOMAIN features /\ features.dependents
                     THEN <<"dependents">>
                     ELSE <<"dependents", "married">>
      error == FirstKeyError(features, medical_keys \o family_keys)
  IN IF error.kind = "KeyError" THEN error
     ELSE [kind |-> "return", value |-> rule_based_score_rider(features, rider_data)]

\* trigger_strength_score reads features with .get only.
trigger_strength_score_call(features, triggers) ==
  [kind |-> "return", value |-> trigger_strength_score(features, triggers)]

\* A premium percentage is in units of 1/PctUnit percent: a base rate in tenths
\* times four multipliers in tenths.
PctUnit == 10 * 10 * 10 * 10 * 10

\* Tiers with the thresholds on the other side: a percentage of exactly 5, 10 or
\* 15 falls in the cheaper tier.
financial_fit_score_inclusive(monthly_income, estimated_premium_percentage) ==
  LET tier == IF estimated_premium_percentage <= 5 * PctUnit
                THEN [score |-> 10, status |-> "highly_affordable"]
              ELSE IF estimated_premium_percentage <= 10 * PctUnit
                THEN [score |-> 8, status |-> "affordable"]
              ELSE IF estimated_premium_percentage <= 15 * PctUnit
                THEN [score |-> 5, status |-> "moderate"]
              ELSE [score |-> 2, status |-> "expensive"]
  IN [score |-> tier.score,
      breakdown |-> [status |-> tier.status,
                     premium_percentage |-> estimated_premium_percentage,
                     monthly_income |-> monthly_income]]

\* Tiers that read the income as well: below an income of 35000 every tier is
\* one step more expensive.
financial_fit_score_income_aware(monthly_income, estimated_premium_percentage) ==
  LET pct == IF monthly_income < 35000
               THEN estimated_premium_percentage + 5 * PctUnit
             ELSE estimated_premium_percentage
      tier == IF pct < 5 * PctUnit
                THEN [score |-> 10, status |-> "highly_affordable"]
              ELSE IF pct < 10 * PctUnit
                THEN [score |-> 8, status |-> "affordable"]
              ELSE IF pct < 15 * PctUnit
                THEN [score |-> 5, status |-> "moderate"]
              ELSE [score |-> 2, status |-> "expensive"]
  IN [score |-> tier.score,
      breakdown |-> [status |-> tier.status,
                     premium_percentage |-> estimated_premium_percentage,
                     monthly_income |-> monthly_income]]

\* Returns (score, breakdown): score in tenths; premium_ratio < 0.05 is
\* percentage < 5, and so on.
financial_fit_score(monthly_income, estimated_premium_percentage) ==
  LET tier == IF estimated_premium_percentage < 5 * PctUnit
                THEN [score |-> 10, status |-> "highly_affordable"]
              ELSE IF estimated_premium_percentage < 10 * PctUnit
                THEN [score |-> 8, status |-> "affordable"]
              ELSE IF estimated_premium_percentage < 15 * PctUnit
                THEN [score |-> 5, status |-> "moderate"]
              ELSE [score |-> 2, status |-> "expensive"]
  IN [score |-> tier.score,
      breakdown |-> [status |-> tier.status,
                     premium_percentage |-> estimated_premium_percentage,
                     monthly_income |-> monthly_income]]

estimate_policy_premium_percentage(policy_name, features) ==
  LET base_rate == CASE policy_name = "FlexLife" -> 70
                     [] policy_name = "Life+" -> 50
                     [] policy_name = "Health360" -> 60
                     [] policy_name = "Pension Advantage" -> 80
                     [] policy_name = "ClickLife" -> 30
                     [] policy_name = "Union Protect" -> 20
                     [] OTHER -> 50
      age == features.age
      age_mult == IF age > 50 THEN 14 ELSE IF age > 40 THEN 12
                  ELSE IF age < 30 THEN 8 ELSE 10
      risk_mult == CASE features.medical_risk = "Low" -> 10
                     [] features.medical_risk = "Medium" -> 12
                     [] features.medical_risk = "High" -> 15
                     [] features.medical_risk = "Very High" -> 20
                     [] OTHER -> 10
      smoker_mult == IF features.smoker THEN 13 ELSE 10
      job_mult == IF features.hazardous_job THEN 12 ELSE 10
  IN Min(base_rate * age_mult * risk_mult * smoker_mult * job_mult, 20 * PctUnit)

estimate_rider_premium_percentage(rider_name) ==
  LET tenths == CASE rider_name = "Critical Illness" -> 15
                  [] rider_name = "Hospitalisation" -> 18
                  [] rider_name = "TPD" -> 12
                  [] rider_name = "ADB" -> 5
                  [] rider_name = "Disability Income" -> 20
                  [] rider_name = "Income Protection" -> 20
                  [] rider_name = "Chronic Medication" -> 15
                  [] rider_name = "Maternity" -> 10
                  [] rider_name = "OPD" -> 12
                  [] rider_name = "Hospital Cash" -> 8
                  [] rider_name = "Child Health" -> 10
                  [] rider_name = "Spouse Benefit" -> 10
                  [] rider_name = "Premium Waiver" -> 5
                  [] rider_name = "Funeral Benefit" -> 3
                  [] rider_name = "Cancer Care" -> 15
                  [] rider_name = "Organ Transplant" -> 10
                  [] rider_name = "Overseas Treatment" -> 8
                  [] rider_name = "Group ADB" -> 3
                  [] rider_name = "Group Disability" -> 8
                  [] rider_name = "Group Critical Illness" -> 10
                  [] rider_name = "Group Hospital Cash" -> 5
                  [] rider_name = "Surgery Benefit" -> 10
                  [] OTHER -> 10
  IN tenths * (PctUnit \div 10)

(***************************************************************************)
(* scoring/ensemble_scorer.py                                              *)
(***************************************************************************)

\* EnsembleScorer.__init__: self.weights and self.rider_weights, in hundredths.
weights == [rule |-> 35, nlp |-> 35, trigger |-> 0, financial |-> 30]

rider_weights == [rule |-> 30, nlp |-> 35, trigger |-> 25, financial |-> 10]

\* np.dot(user_vec, item_vec) of two unit vectors, in hundredths: the embedding
\* provider is outside the program, so the dot product of the user text with each
\* catalog text is an input, `similarity`, a function of the catalog entry's name.
compute_nlp_similarity(similarity, item_name) == similarity[item_name]

\* The weights the docstring of __init__ gives as the default: financial 0.10.
PolicyWeightedSumDocstring(rule_score, nlp_score, financial_score) ==
  35 * rule_score + 35 * nlp_score + 10 * financial_score

\* The weighted sums of score_policy and score_rider over component scores.
PolicyWeightedSum(rule_score, nlp_score, financial_score) ==
  weights.rule * rule_score + weights.nlp * nlp_score + weights.financial * financial_score

RiderWeightedSum(rule_score, nlp_score, trigger_score, financial_score) ==
  rider_weights.rule * rule_score + rider_weights.nlp * nlp_score
  + rider_weights.trigger * trigger_score + rider_weights.financial * financial_score

score_policy(user, features, policy_name, policy_data, similarity) ==
  LET rule == rule_based_score_policy(features, policy_data)
      nlp_score == (compute_nlp_similarity(similarity, policy_name)
                    * PolicyCompUnit(policy_data)) \div 100
      premium_pct == estimate_policy_premium_percentage(policy_name, features)
      fin == financial_fit_score(user.monthly_income, premium_pct)
      financial_score == (fin.score * PolicyCompUnit(policy_data)) \div 10
  IN [final_score |-> PolicyWeightedSum(rule.score, nlp_score, financial_score),
      components |-> [rule_score |-> rule.score,
                      nlp_score |-> nlp_score,
                      financial_score |-> financial_score,
                      rule_breakdown |-> rule.breakdown,
                      financial_breakdown |-> fin.breakdown],
      weights |-> weights,
      policy_name |-> policy_name]

score_rider(user, features, rider_name, rider_data, similarity) ==
  LET rule == rule_based_score_rider(features, rider_data)
      nlp_score == (compute_nlp_similarity(similarity, rider_name) * RiderCompUnit) \div 100
      trig == trigger_strength_score(features, rider_data.triggers)
      rider_premium_pct == estimate_rider_premium_percentage(rider_name)
      fin == financial_fit_score(user.monthly_income, rider_premium_pct)
      financial_score == (fin.score * RiderCompUnit) \div 10
  IN [final_score |-> RiderWeightedSum(rule.score, nlp_score, trig.score, financial_score),
      components |-> [rule_score |-> rule.score,
                      nlp_score |-> nlp_score,
                      trigger_score |-> trig.score,
                      financial_score |-> financial_score,
                      rule_breakdown |-> rule.breakdown,
                      trigger_breakdown |-> trig.breakdown,
                      financial_breakdown |-> fin.breakdown],
      weights |-> rider_weights,
      rider_name |-> rider_name]

batch_score_riders(user, features, rider_names, similarity) ==
  [rider_name \in Range(rider_names) |->
     score_rider(user, features, rider_name, RIDERS[rider_name], similarity)]

(***************************************************************************)
(* recommender.py: recommend(user, explain, top_riders) as a state machine *)
(***************************************************************************)

VARIABLES
  user,               \* the UserProfile argument
  explain,            \* the explain argument
  top_riders,         \* the top_riders argument
  pc,                 \* the position of recommend (or of a pure call, see below)
  features,           \* derive_features' result
  similarity,         \* the dot products the embedding provider yields
  candidate_policies, \* Phase 3
  policy_scores,      \* Phase 4
  best_policy_name,   \* Phase 4
  user_risks,         \* Phase 5
  coverage_gaps,      \* Phase 5
  eligible_riders,    \* Phase 6
  rider_scores,       \* Phase 6, adjusted in Phase 7
  gap_fillers,        \* Phase 7: prioritize_riders_for_gaps' result
  gap_index,          \* Phase 7: the position of the loop over gap_fillers
  gap_bonus,          \* Phase 7: rider name -> the gap_bonus added to its score
  bonus_count,        \* Phase 7: rider name -> how often line 146 ran for it
  primary_riders,     \* Phase 8
  alternate_riders,   \* Phase 8
  result,             \* the returned dict
  call,               \* a pure function call: its name and arguments
  ret                 \* a pure function call: its result

vars ==
  <<catalogs, user, explain, top_riders, pc, features, similarity, candidate_policies,
    policy_scores, best_policy_name, user_risks, coverage_gaps, eligible_riders,
    rider_scores, gap_fillers, gap_index, gap_bonus, bonus_count, primary_riders,
    alternate_riders, result, call, ret>>

\* The locals of recommend from Phase 4 on.
scoring_vars ==
  <<policy_scores, best_policy_name, user_risks, coverage_gaps, eligible_riders,
    rider_scores, gap_fillers, gap_index, gap_bonus, bonus_count, primary_riders,
    alternate_riders>>

NoResult == [kind |-> "none"]

\* Phase 1: features = derive_features(user)
DeriveFeatures ==
  /\ pc = "start"
  /\ features' = derive_features(user)
  /\ pc' = "embed"
  /\ UNCHANGED <<catalogs, user, explain, top_riders, similarity, candidate_policies,
                 scoring_vars, result, call, ret>>

\* Phase 2: user_vec = embedder.encode([user_text])[0]; the dot products with
\* the catalog texts are fixed from here on.
Embed(Similarities) ==
  /\ pc = "embed"
  /\ similarity' \in Similarities
  /\ pc' = "filter"
  /\ UNCHANGED <<catalogs, user, explain, top_riders, features, candidate_policies,
                 scoring_vars, result, call, ret>>

\* Phase 3, strict filter.
FilterPolicies ==
  /\ pc = "filter"
  /\ candidate_policies' = filter_policies(features)
  /\ pc' = IF candidate_policies' # <<>> THEN "score_policies" ELSE "relaxed"
  /\ UNCHANGED <<catalogs, user, explain, top_riders, features, similarity,
                 scoring_vars, result, call, ret>>

\* Phase 3, relaxed pass: taken when the strict filter returned nothing.
RelaxedPass ==
  /\ pc = "relaxed"
  /\ LET relaxed == relaxed_candidates(features)
     IN IF relaxed # <<>>
        THEN /\ candidate_policies' = relaxed
             /\ pc' = "score_policies"
             /\ result' = result
        ELSE /\ candidate_policies' = candidate_policies
             /\ pc' = "done"
             /\ result' = [kind |-> "error",
                           error |-> "No eligible policies found for this user profile",
                           user_risks |-> identify_user_risks(features)]
  /\ UNCHANGED <<catalogs, user, explain, top_riders, features, similarity,
                 scoring_vars, call, ret>>

\* a's final score < b's final score, each in its own policy's unit.
PolicyScoreLess(scores, a, b) ==
  scores[a].final_score * AgeSpan(POLICIES[b]) < scores[b].final_score * AgeSpan(POLICIES[a])

\* A ranking in which the later of two candidates with equal scores comes first.
rank_policy_scores_last_tie(names, scores) ==
  LET reversed == [i \in 1..Len(names) |-> names[Len(names) + 1 - i]]
  IN SortDesc(reversed,
              [i \in 1..Len(reversed) |->
                 0 - Cardinality({j \in 1..Len(reversed) :
                                    PolicyScoreLess(scores, reversed[i], reversed[j])})])

\* sorted(policy_scores.items(), key=final_score, reverse=True): the names.
rank_policy_scores(names, scores) ==
  SortDesc(names,
           [i \in 1..Len(names) |->
              0 - Cardinality({j \in 1..Len(names) : PolicyScoreLess(scores, names[i], names[j])})])

\* Phase 4: score every candidate, rank, take the first.
ScorePolicies ==
  /\ pc = "score_policies"
  /\ policy_scores' =
       [policy_name \in Range(candidate_policies) |->
          score_policy(user, features, policy_name, POLICIES[policy_name], similarity)]
  /\ best_policy_name' = rank_policy_scores(candidate_policies, policy_scores')[1]
  /\ pc' = "gap_analysis"
  /\ UNCHANGED <<catalogs, user, explain, top_riders, features, similarity, candidate_policies,
                 user_risks, coverage_gaps, eligible_riders, rider_scores, gap_fillers,
                 gap_index, gap_bonus, bonus_count, primary_riders, alternate_riders,
                 result, call, ret>>

\* Phase 5: coverage gaps of the chosen policy.
GapAnalysis ==
  /\ pc = "gap_analysis"
  /\ user_risks' = identify_user_risks(features)
  /\ coverage_gaps' = find_coverage_gaps(user_risks', get_policy_coverage(best_policy_name))
  /\ pc' = "score_riders"
  /\ UNCHANGED <<catalogs, user, explain, top_riders, features, similarity, candidate_policies,
                 policy_scores, best_policy_name, eligible_riders, rider_scores,
                 gap_fillers, gap_index, gap_bonus, bonus_count, primary_riders,
                 alternate_riders, result, call, ret>>

\* Phase 6: filter and score riders.
ScoreRiders ==
  /\ pc = "score_riders"
  /\ eligible_riders' = filter_riders(best_policy_name, POLICIES[best_policy_name], features)
  /\ rider_scores' = batch_score_riders(user, features, eligible_riders', similarity)
  /\ bonus_count' = [r \in Range(eligible_riders') |-> 0]
  /\ gap_bonus' = [r \in Range(eligible_riders') |-> 0]
  /\ pc' = "prioritize"
  /\ UNCHANGED <<catalogs, user, explain, top_riders, features, similarity, candidate_policies,
                 policy_scores, best_policy_name, user_risks, coverage_gaps,
                 gap_fillers, gap_index, primary_riders, alternate_riders,
                 result, call, ret>>

\* Phase 7, line 137-138: the gap fillers, none when the guard fails.
Prioritize ==
  /\ pc = "prioritize"
  /\ gap_fillers' = IF coverage_gaps # {} /\ eligible_riders # <<>>
                    THEN prioritize_riders_for_gaps(coverage_gaps, eligible_riders)
                    ELSE <<>>
  /\ gap_index' = 1
  /\ pc' = "bonus"
  /\ UNCHANGED <<catalogs, user, explain, top_riders, features, similarity, candidate_policies,
                 policy_scores, best_policy_name, user_risks, coverage_gaps,
                 eligible_riders, rider_scores, gap_bonus, bonus_count,
                 primary_riders, alternate_riders, result, call, ret>>

\* gap_bonus = min(priority_score * 0.05, 0.15), in final-score units
\* (priority_score is in hundredths).
GapBonus(priority_score) ==
  Min((priority_score * 5 * RiderFinalUnit) \div (100 * 100), (15 * RiderFinalUnit) \div 100)

\* An addition without the clamp.
BoostedScoreUnclamped(final_score, bonus) == final_score + bonus

\* min(final_score + gap_bonus, 1.0)
BoostedScore(final_score, bonus) == Min(final_score + bonus, RiderFinalUnit)

\* Phase 7, lines 141-151: one iteration of the loop over gap_fillers.
ApplyGapBonus ==
  /\ pc = "bonus"
  /\ gap_index <= Len(gap_fillers)
  /\ LET gap_filler == gap_fillers[gap_index]
         rider_name == gap_filler.rider_name
     IN IF rider_name \in DOMAIN rider_scores
        THEN LET bonus == GapBonus(gap_filler.priority_score)
                 old == rider_scores[rider_name]
                 new == [final_score |-> BoostedScore(old.final_score, bonus),
                         components |-> old.components,
                         weights |-> old.weights,
                         rider_name |-> old.rider_name,
                         fills_gaps |-> gap_filler.filled_gaps,
                         gap_priority |-> gap_filler.priority_score]
             IN /\ rider_scores' = [rider_scores EXCEPT ![rider_name] = new]
                /\ gap_bonus' = [gap_bonus EXCEPT ![rider_name] = bonus]
                /\ bonus_count' = [bonus_count EXCEPT ![rider_name] = @ + 1]
        ELSE UNCHANGED <<rider_scores, gap_bonus, bonus_count>>
  /\ gap_index' = gap_index + 1
  /\ UNCHANGED <<catalogs, user, explain, top_riders, pc, features, similarity, candidate_policies,
                 policy_scores, best_policy_name, user_risks, coverage_gaps,
                 eligible_riders, gap_fillers, primary_riders, alternate_riders,
                 result, call, ret>>

\* The thresholds of Phase 8, in final-score units.
PrimaryThreshold == (65 * RiderFinalUnit) \div 100

AlternateThreshold == (45 * RiderFinalUnit) \div 100

\* A cut that keeps the whole list.
TakeAll(s, n) == s

\* list[:n]
Take(s, n) == [i \in 1..Min(Len(s), n) |-> s[i]]

\* A split placed inside the loop of Phase 7: the lists are built while gap
\* fillers are still waiting for their bonus.
SplitRidersInsideLoop ==
  /\ pc = "bonus"
  /\ LET final(r) == rider_scores[r].final_score
         is_primary(r) == final(r) >= PrimaryThreshold
         is_alternate(r) == ~is_primary(r) /\ final(r) >= AlternateThreshold
         primary == SelectSeq(eligible_riders, is_primary)
         alternate == SelectSeq(eligible_riders, is_alternate)
         sorted(s) == SortDesc(s, [i \in 1..Len(s) |-> final(s[i])])
     IN /\ primary_riders' = Take(sorted(primary), top_riders)
        /\ alternate_riders' = Take(sorted(alternate), top_riders)
  /\ pc' = IF gap_index > Len(gap_fillers) THEN "explain" ELSE "bonus"
  /\ UNCHANGED <<catalogs, user, explain, top_riders, features, similarity, candidate_policies,
                 policy_scores, best_policy_name, user_risks, coverage_gaps,
                 eligible_riders, rider_scores, gap_fillers, gap_index, gap_bonus,
                 bonus_count, result, call, ret>>

\* Phase 8: split by score, sort each list by score, cut to top_riders.
SplitRiders ==
  /\ pc = "bonus"
  /\ gap_index > Len(gap_fillers)
  /\ LET final(r) == rider_scores[r].final_score
         is_primary(r) == final(r) >= PrimaryThreshold
         is_alternate(r) == ~is_primary(r) /\ final(r) >= AlternateThreshold
         primary == SelectSeq(eligible_riders, is_primary)
         alternate == SelectSeq(eligible_riders, is_alternate)
         sorted(s) == SortDesc(s, [i \in 1..Len(s) |-> final(s[i])])
     IN /\ primary_riders' = Take(sorted(primary), top_riders)
        /\ alternate_riders' = Take(sorted(alternate), top_riders)
  /\ pc' = "explain"
  /\ UNCHANGED <<catalogs, user, explain, top_riders, features, similarity, candidate_policies,
                 policy_scores, best_policy_name, user_risks, coverage_gaps,
                 eligible_riders, rider_scores, gap_fillers, gap_index, gap_bonus,
                 bonus_count, result, call, ret>>

\* Phase 9: the result; with explain, the coverage analysis over the primary riders.
BuildResult ==
  /\ pc = "explain"
  /\ LET base == [kind |-> "recommendation",
                  policy |-> best_policy_name,
                  policy_score |-> policy_scores[best_policy_name].final_score,
                  primary_riders |-> primary_riders,
                  alternate_riders |-> alternate_riders,
                  coverage_gaps |-> coverage_gaps,
                  user_risks |-> user_risks,
                  explained |-> explain]
     IN result' =
          IF explain
          THEN [kind |-> base.kind, policy |-> base.policy,
                policy_score |-> base.policy_score,
                primary_riders |-> base.primary_riders,
                alternate_riders |-> base.alternate_riders,
                coverage_gaps |-> base.coverage_gaps,
                user_risks |-> base.user_risks,
                explained |-> TRUE,
                coverage_analysis |->
                  analyze_coverage_completeness(features, best_policy_name, primary_riders),
                all_policy_scores |-> policy_scores]
          ELSE base
  /\ catalogs' = IF explain
                  THEN CatalogsAfterAnalysis(best_policy_name, primary_riders)
                  ELSE catalogs
  /\ pc' = "done"
  /\ UNCHANGED <<user, explain, top_riders, features, similarity, candidate_policies,
                 scoring_vars, call, ret>>

(***************************************************************************)
(* Inputs                                                                  *)
(***************************************************************************)

\* The eight medical condition fields of a UserProfile.
MedicalFields ==
  {"chronic_disease", "cardiovascular_health_issue", "cancer_or_tumors",
   "respiratory_conditions", "neurological_or_mental_health_conditions",
   "gastrointestinal_conditions", "musculoskeletal_conditions",
   "infectious_or_sexual_health_conditions"}

\* A complete UserProfile; `medical` is the set of the medical fields that are True,
\* `p` holds the fields that vary.  A missing secondary goal is "None".
MakeUser(p, medical) ==
  [age_nearest_bday |-> p.age,
   gender |-> p.gender,
   marital_status |-> p.marital_status,
   employment_type |-> p.employment_type,
   hazardous_level |-> p.hazardous_level,
   hazardous_activities |-> p.hazardous_activities,
   monthly_income |-> p.monthly_income,
   existing_insurance |-> p.existing_insurance,
   dependents_count |-> p.dependents_count,
   primary_goal |-> p.primary_goal,
   secondary_goal |-> p.secondary_goal,
   chronic_disease |-> "chronic_disease" \in medical,
   cardiovascular_health_issue |-> "cardiovascular_health_issue" \in medical,
   cancer_or_tumors |-> "cancer_or_tumors" \in medical,
   respiratory_conditions |-> "respiratory_conditions" \in medical,
   neurological_or_mental_health_conditions |->
     "neurological_or_mental_health_conditions" \in medical,
   gastrointestinal_conditions |-> "gastrointestinal_conditions" \in medical,
   musculoskeletal_conditions |-> "musculoskeletal_conditions" \in medical,
   infectious_or_sexual_health_conditions |->
     "infectious_or_sexual_health_conditions" \in medical,
   bmi |-> p.bmi,
   smoker |-> p.smoker,
   alcohol_consumer |-> "Occasionally",
   travel_history_high_risk_countries |-> p.travel,
   dual_citizenship |-> p.dual_citizenship,
   tax_or_regulatory_flags |-> FALSE,
   insurance_history_issues |-> FALSE,
   current_insurance_status |-> "Active personal policy",
   employer_scheme |-> p.employer_scheme]

\* main.py: the profile of the demonstration run.
MainUser ==
  MakeUser([age |-> 35, gender |-> "Male", marital_status |-> "Married",
            employment_type |-> "Permanent", hazardous_level |-> "Low",
            hazardous_activities |-> "", monthly_income |-> 200000,
            existing_insurance |-> "Yes", dependents_count |-> 2,
            primary_goal |-> "Savings", secondary_goal |-> "Retirement with liquidity",
            bmi |-> 248, smoker |-> "No", travel |-> FALSE, dual_citizenship |-> FALSE,
            employer_scheme |-> TRUE],
           {})

\* The largest dependents_count of the generated profiles.
MaxDependents == 1

\* The similarities range over -100, ..., 100 in NlpSteps equal steps.
NlpSteps == 2

NlpValues == [k \in 1..(NlpSteps + 1) |-> (k - 1) * (200 \div NlpSteps) - 100]

CatalogItems == Range(PolicyOrder) \cup Range(RiderOrder)

ItemIndex(item) ==
  IF item \in Range(PolicyOrder) THEN IndexOf(PolicyOrder, item)
  ELSE Len(PolicyOrder) + IndexOf(RiderOrder, item)

\* The texts an embedding may rate alike and above the rest: the two policies
\* with the age range 18-65.
PreferredTexts == {"Life+", "Union Protect"}

\* The embeddings tried: every catalog text at the same similarity, for each
\* similarity value, the catalog texts spread over the similarity values, and the
\* preferred texts at 1.0 with the others at 0.
SimilarityChoices ==
  {[item \in CatalogItems |-> NlpValues[base] ] : base \in 1..(NlpSteps + 1)}
  \cup {[item \in CatalogItems |-> NlpValues[(ItemIndex(item) % Len(NlpValues)) + 1]]}
  \cup {[item \in CatalogItems |-> IF item \in PreferredTexts THEN 100 ELSE 0]}

\* The profiles of the full pipeline.
PipelineProfiles ==
  {MakeUser([age |-> age, gender |-> gender, marital_status |-> marital,
             employment_type |-> "Permanent", hazardous_level |-> hazard,
             hazardous_activities |-> "", monthly_income |-> income,
             existing_insurance |-> "Yes", dependents_count |-> deps,
             primary_goal |-> goal, secondary_goal |-> "None",
             bmi |-> 248, smoker |-> smoker, travel |-> FALSE,
             dual_citizenship |-> FALSE, employer_scheme |-> TRUE],
            medical) :
     age \in {35, 42, 70, 81}, gender \in {"Male", "Female"},
     marital \in {"Single", "Married"}, hazard \in {"Low", "High"},
     income \in {30000, 200000}, deps \in 0..MaxDependents,
     goal \in {"Savings", "Family protection", "Medical coverage"},
     smoker \in {"No", "Yes"},
     medical \in {{}, {"chronic_disease"}, {"cancer_or_tumors"}}}
  \cup {MainUser}

\* Young employees in an employer scheme, for whom Life+ and Union Protect get
\* the same rule and affordability scores.
YoungEmployeeProfiles ==
  {MakeUser([age |-> age, gender |-> "Male", marital_status |-> "Single",
             employment_type |-> "Permanent", hazardous_level |-> "Low",
             hazardous_activities |-> "", monthly_income |-> 30000,
             existing_insurance |-> "Yes", dependents_count |-> 0,
             primary_goal |-> goal, secondary_goal |-> "None",
             bmi |-> 248, smoker |-> "No", travel |-> FALSE,
             dual_citizenship |-> FALSE, employer_scheme |-> TRUE],
            {}) :
     age \in {22, 29}, goal \in {"Savings", "Group coverage"}}

\* The (explain, top_riders) arguments tried.
ArgumentChoices == {<<TRUE, 10>>, <<FALSE, 2>>}

\* The state at the call of recommend(user, explain, top_riders).
InitCall(Profiles, Arguments) ==
  /\ catalogs = StaticCatalogs
  /\ user \in Profiles
  /\ \E a \in Arguments : explain = a[1] /\ top_riders = a[2]
  /\ pc = "start"
  /\ features = <<>>
  /\ similarity = <<>>
  /\ candidate_policies = <<>>
  /\ policy_scores = <<>>
  /\ best_policy_name = ""
  /\ user_risks = {}
  /\ coverage_gaps = {}
  /\ eligible_riders = <<>>
  /\ rider_scores = <<>>
  /\ gap_fillers = <<>>
  /\ gap_index = 1
  /\ gap_bonus = <<>>
  /\ bonus_count = <<>>
  /\ primary_riders = <<>>
  /\ alternate_riders = <<>>
  /\ result = NoResult
  /\ call = [fn |-> "recommend"]
  /\ ret = {}

Init == InitCall(PipelineProfiles \cup YoungEmployeeProfiles, ArgumentChoices)

Next ==
  \/ DeriveFeatures
  \/ Embed(SimilarityChoices)
  \/ FilterPolicies
  \/ RelaxedPass
  \/ ScorePolicies
  \/ GapAnalysis
  \/ ScoreRiders
  \/ Prioritize
  \/ ApplyGapBonus
  \/ SplitRiders
  \/ BuildResult

Spec == Init /\ [][Next]_vars

(***************************************************************************)
(* recommend through Phase 5, over a wide range of profiles                *)
(***************************************************************************)

\* Every combination of the eight medical fields.
MedicalProfiles ==
  {MakeUser([age |-> age, gender |-> "Female", marital_status |-> "Single",
             employment_type |-> "Permanent", hazardous_level |-> "Low",
             hazardous_activities |-> "", monthly_income |-> 100000,
             existing_insurance |-> "No", dependents_count |-> 0,
             primary_goal |-> "Medical coverage", secondary_goal |-> "None",
             bmi |-> 248, smoker |-> "No", travel |-> FALSE,
             dual_citizenship |-> FALSE, employer_scheme |-> FALSE],
            medical) :
     age \in {35, 70}, medical \in SUBSET MedicalFields}

\* The fields the risk rule table reads.
RiskProfiles ==
  {MakeUser([age |-> age, gender |-> gender, marital_status |-> marital,
             employment_type |-> "Permanent", hazardous_level |-> hazard[1],
             hazardous_activities |-> hazard[2], monthly_income |-> income,
             existing_insurance |-> "Yes", dependents_count |-> deps,
             primary_goal |-> goal, secondary_goal |-> "None",
             bmi |-> bmi, smoker |-> smoker, travel |-> abroad[1],
             dual_citizenship |-> abroad[2], employer_scheme |-> TRUE],
            medical) :
     age \in {35, 42, 47}, gender \in {"Male", "Female"},
     marital \in {"Single", "Married"},
     hazard \in {<<"Low", "">>, <<"Medium", "">>, <<"Low", "Diving">>},
     income \in {30000, 200000}, deps \in 0..MaxDependents,
     goal \in {"Savings", "Retirement"}, bmi \in {248, 320}, smoker \in {"No", "Yes"},
     abroad \in {<<FALSE, FALSE>>, <<TRUE, FALSE>>, <<FALSE, TRUE>>},
     medical \in {{}, {"chronic_disease"}, {"cardiovascular_health_issue"},
                  {"gastrointestinal_conditions"}}}

\* The fields the eligibility filters read.
EligibilityProfiles ==
  {MakeUser([age |-> age, gender |-> "Male", marital_status |-> marital,
             employment_type |-> employment, hazardous_level |-> "Low",
             hazardous_activities |-> "", monthly_income |-> income,
             existing_insurance |-> existing, dependents_count |-> 0,
             primary_goal |-> goal, secondary_goal |-> "Savings",
             bmi |-> 248, smoker |-> "No", travel |-> FALSE,
             dual_citizenship |-> FALSE, employer_scheme |-> scheme],
            medical) :
     age \in {17, 22, 35, 42, 62, 70, 81}, marital \in {"Single", "Married"},
     employment \in {"Permanent", "Contract"}, income \in {30000, 100000, 200000},
     existing \in {"Yes", "No"}, scheme \in BOOLEAN,
     goal \in {"Savings", "Family protection", "Medical coverage", "Retirement",
               "Cheap & quick", "Group coverage", "Travel"},
     medical \in {{}, {"chronic_disease"}, {"cancer_or_tumors"}}}

\* Profiles at and next to the ends of the widest age range of the catalog.
BoundaryAgeProfiles ==
  {MakeUser([age |-> age, gender |-> "Male", marital_status |-> "Single",
             employment_type |-> employment, hazardous_level |-> "Low",
             hazardous_activities |-> "", monthly_income |-> income,
             existing_insurance |-> "Yes", dependents_count |-> 0,
             primary_goal |-> goal, secondary_goal |-> "None",
             bmi |-> 248, smoker |-> "No", travel |-> FALSE,
             dual_citizenship |-> FALSE, employer_scheme |-> FALSE],
            medical) :
     age \in {-1, 0, 1, 79, 80, 81},
     employment \in {"Permanent", "Unemployed"}, income \in {30000, 100000, 200000},
     goal \in {"Savings", "Medical coverage", "Travel"},
     medical \in {{}, {"chronic_disease"}, {"cancer_or_tumors"}}}

InitFront ==
  InitCall(MedicalProfiles \cup RiskProfiles \cup EligibilityProfiles
             \cup BoundaryAgeProfiles \cup {MainUser},
           {<<TRUE, 10>>})

NextFront ==
  \/ DeriveFeatures
  \/ Embed({[item \in CatalogItems |-> 0]})
  \/ FilterPolicies
  \/ RelaxedPass
  \/ ScorePolicies
  \/ GapAnalysis

SpecFront == InitFront /\ [][NextFront]_vars

(***************************************************************************)
(* The coverage functions called on their own                              *)
(***************************************************************************)

\* The longest rider list passed to a coverage function.
MaxSelected == 2

SeqsUpTo(S, n) == UNION {[1..k -> S] : k \in 0..n}

\* Names passed as policy_name and in rider lists: the catalog keys and an unknown one.
PolicyNameChoices == DOMAIN POLICY_COVERAGE \cup {"Unknown Plan"}

RiderNameChoices == DOMAIN RIDER_COVERAGE \cup {"Unknown Rider"}

\* Risk sets passed to get_coverage_completeness_score: catalog and unknown types.
RiskChoices == SUBSET {"death", "hospitalization", "maternity", "funeral", "pet_care"}

\* Profiles and rider lists passed to analyze_coverage_completeness.
AnalysisProfiles ==
  {MakeUser([age |-> age, gender |-> "Female", marital_status |-> "Single",
             employment_type |-> "Permanent", hazardous_level |-> hazard,
             hazardous_activities |-> "", monthly_income |-> 30000,
             existing_insurance |-> "No", dependents_count |-> deps,
             primary_goal |-> "Savings", secondary_goal |-> "None",
             bmi |-> 248, smoker |-> "No", travel |-> FALSE,
             dual_citizenship |-> FALSE, employer_scheme |-> FALSE],
            medical) :
     age \in {35, 47}, hazard \in {"Low", "High"}, deps \in 0..MaxDependents,
     medical \in {{}, {"chronic_disease"}}}

AnalysisRiders ==
  {"Hospitalisation", "ADB", "Child Health", "Maternity", "Surgery Benefit", "Unknown Rider"}

InitCoverage ==
  /\ catalogs = StaticCatalogs
  /\ user = MainUser
  /\ explain = TRUE
  /\ top_riders = 10
  /\ pc = "idle"
  /\ features = <<>>
  /\ similarity = <<>>
  /\ candidate_policies = <<>>
  /\ policy_scores = <<>>
  /\ best_policy_name = ""
  /\ user_risks = {}
  /\ coverage_gaps = {}
  /\ eligible_riders = <<>>
  /\ rider_scores = <<>>
  /\ gap_fillers = <<>>
  /\ gap_index = 1
  /\ gap_bonus = <<>>
  /\ bonus_count = <<>>
  /\ primary_riders = <<>>
  /\ alternate_riders = <<>>
  /\ result = NoResult
  /\ call = [fn |-> "none"]
  /\ ret = {}

\* What a coverage function leaves alone: everything but its call, its result
\* and the position.
recommend_vars ==
  <<user, explain, top_riders, features, similarity, candidate_policies,
    scoring_vars, result>>

CallGetCombinedCoverage ==
  /\ pc = "idle"
  /\ \E policy_name \in PolicyNameChoices, rider_names \in SeqsUpTo(RiderNameChoices, MaxSelected) :
       /\ call' = [fn |-> "get_combined_coverage", policy_name |-> policy_name,
                   rider_names |-> rider_names]
       /\ ret' = get_combined_coverage(policy_name, rider_names)
       /\ catalogs' = CatalogsAfterCombinedCoverage(policy_name, rider_names)
  /\ pc' = "returned"
  /\ UNCHANGED recommend_vars

CallGetCoverageCompletenessScore ==
  /\ pc = "idle"
  /\ \E covered_risks \in RiskChoices, total_risks \in RiskChoices :
       /\ call' = [fn |-> "get_coverage_completeness_score",
                   covered_risks |-> covered_risks, total_risks |-> total_risks]
       /\ ret' = get_coverage_completeness_score(covered_risks, total_risks)
  /\ pc' = "returned"
  /\ UNCHANGED <<catalogs, recommend_vars>>

CallAnalyzeCoverageCompleteness ==
  /\ pc = "idle"
  /\ \E u \in AnalysisProfiles, policy_name \in PolicyNameChoices,
        selected_riders \in SeqsUpTo(AnalysisRiders, MaxSelected) :
       /\ call' = [fn |-> "analyze_coverage_completeness", user |-> u,
                   policy_name |-> policy_name, selected_riders |-> selected_riders]
       /\ ret' = analyze_coverage_completeness(derive_features(u), policy_name, selected_riders)
       /\ catalogs' = CatalogsAfterAnalysis(policy_name, selected_riders)
  /\ pc' = "returned"
  /\ UNCHANGED recommend_vars

\* The gap sets passed to prioritize_riders_for_gaps and calculate_gap_priority.
GapChoices == SUBSET {"hospitalization", "maternity", "accident", "pet_care"}

CallPrioritizeRidersForGaps ==
  /\ pc = "idle"
  /\ \E gaps \in GapChoices, available_riders \in SeqsUpTo(AnalysisRiders, MaxSelected) :
       /\ call' = [fn |-> "prioritize_riders_for_gaps", coverage_gaps |-> gaps,
                   available_riders |-> available_riders]
       /\ ret' = prioritize_riders_for_gaps(gaps, available_riders)
  /\ pc' = "returned"
  /\ UNCHANGED <<catalogs, recommend_vars>>

CallCalculateGapPriority ==
  /\ pc = "idle"
  /\ \E gaps \in GapChoices \cup SUBSET {"death", "funeral", "pet_care", "flood"} :
       /\ call' = [fn |-> "calculate_gap_priority", gaps |-> gaps]
       /\ ret' = calculate_gap_priority(gaps)
  /\ pc' = "returned"
  /\ UNCHANGED <<catalogs, recommend_vars>>

NextCoverage ==
  \/ CallGetCombinedCoverage
  \/ CallGetCoverageCompletenessScore
  \/ CallAnalyzeCoverageCompleteness
  \/ CallPrioritizeRidersForGaps
  \/ CallCalculateGapPriority

SpecCoverage == InitCoverage /\ [][NextCoverage]_vars

(***************************************************************************)
(* Single calls of derive_features and of the rule and scoring functions   *)
(***************************************************************************)

\* The largest number of keys left out of a profile.
MaxAbsent == 1

AllFields == Range(SubscriptedFields) \cup DefaultedFields

\* The record `user` without the keys of `absent`.
Without(u, absent) == [key \in (DOMAIN u) \ absent |-> u[key]]

FieldProfiles ==
  {MainUser,
   MakeUser([age |-> 42, gender |-> "Female", marital_status |-> "Single",
             employment_type |-> "Self-Employed", hazardous_level |-> "Medium",
             hazardous_activities |-> "Diving", monthly_income |-> 30000,
             existing_insurance |-> "No", dependents_count |-> 0,
             primary_goal |-> "Medical coverage", secondary_goal |-> "Savings",
             bmi |-> 320, smoker |-> "Yes", travel |-> TRUE, dual_citizenship |-> FALSE,
             employer_scheme |-> FALSE],
            {"chronic_disease"})}

\* The subsets of S with at most n elements.
RECURSIVE SubsetsUpTo(_, _)
SubsetsUpTo(S, n) ==
  IF n = 0 THEN {{}}
  ELSE LET smaller == SubsetsUpTo(S, n - 1)
       IN smaller \cup {a \cup {key} : a \in smaller, key \in S}

\* Profiles of a request body that lacks up to MaxAbsent keys.
PartialProfiles ==
  {Without(u, absent) :
     u \in FieldProfiles,
     absent \in SubsetsUpTo(AllFields, MaxAbsent)}

CallDeriveFeatures ==
  /\ pc = "idle"
  /\ \E u \in PartialProfiles :
       /\ call' = [fn |-> "derive_features", user |-> u]
       /\ ret' = derive_features_call(u)
  /\ pc' = "returned"
  /\ UNCHANGED <<catalogs, recommend_vars>>

\* Profiles for the rider filter: the risk profiles and the eligibility profiles.
RiderFilterProfiles == RiskProfiles \cup EligibilityProfiles

CallFilterRiders ==
  /\ pc = "idle"
  /\ \E u \in RiderFilterProfiles, policy_name \in DOMAIN POLICIES :
       /\ call' = [fn |-> "filter_riders", policy_name |-> policy_name,
                   features |-> derive_features(u)]
       /\ ret' = filter_riders(policy_name, POLICIES[policy_name], derive_features(u))
  /\ pc' = "returned"
  /\ UNCHANGED <<catalogs, recommend_vars>>

\* Profiles for the policy rule scorer: ages at the ends, at the midpoints and
\* outside the catalog age ranges, every income band, matching and foreign goals.
ScoreProfiles ==
  {MakeUser([age |-> age, gender |-> "Male", marital_status |-> "Married",
             employment_type |-> employment, hazardous_level |-> "Low",
             hazardous_activities |-> "", monthly_income |-> income,
             existing_insurance |-> "Yes", dependents_count |-> 0,
             primary_goal |-> goal[1], secondary_goal |-> goal[2],
             bmi |-> 248, smoker |-> "No", travel |-> FALSE,
             dual_citizenship |-> FALSE, employer_scheme |-> TRUE],
            medical) :
     age \in {17, 18, 29, 40, 60, 65, 80, 81},
     employment \in {"Permanent", "Contract", "Unemployed"},
     income \in {30000, 100000, 200000},
     goal \in {<<"Savings", "None">>, <<"Travel", "Cheap & quick">>,
               <<"Medical coverage", "Retirement">>, <<"Family protection", "Savings">>,
               <<"Travel", "None">>},
     medical \in {{}, {"gastrointestinal_conditions"}, {"chronic_disease"},
                  {"cancer_or_tumors"}}}

CallRuleBasedScorePolicy ==
  /\ pc = "idle"
  /\ \E u \in ScoreProfiles, policy_name \in DOMAIN POLICIES :
       /\ call' = [fn |-> "rule_based_score_policy", policy_name |-> policy_name,
                   features |-> derive_features(u)]
       /\ ret' = rule_based_score_policy(derive_features(u), POLICIES[policy_name])
  /\ pc' = "returned"
  /\ UNCHANGED <<catalogs, recommend_vars>>

\* The longest trigger list passed to trigger_strength_score.
MaxTriggers == 2

\* Trigger names: boolean features, the string feature medical_risk, and a name
\* that is no feature key.
TriggerNames == {"dependents", "chronic", "medical_risk", "family_cancer_risk"}

CallTriggerStrengthScore ==
  /\ pc = "idle"
  /\ \E u \in FieldProfiles, triggers \in SeqsUpTo(TriggerNames, MaxTriggers) :
       /\ call' = [fn |-> "trigger_strength_score", features |-> derive_features(u),
                   triggers |-> triggers]
       /\ ret' = trigger_strength_score(derive_features(u), triggers)
  /\ pc' = "returned"
  /\ UNCHANGED <<catalogs, recommend_vars>>

\* The largest premium percentage passed to financial_fit_score.
MaxPremium == 22

\* Percentages in steps of one half, each with its two neighbours one unit away.
PremiumChoices ==
  {p \in {k * (PctUnit \div 2) + d : k \in 0..(2 * MaxPremium), d \in {-1, 0, 1}} : p >= 0}

IncomeChoices == {0, 30000, 49999, 50000, 200000}

CallFinancialFitScore ==
  /\ pc = "idle"
  /\ \E monthly_income \in IncomeChoices, estimated_premium_percentage \in PremiumChoices :
       /\ call' = [fn |-> "financial_fit_score", monthly_income |-> monthly_income,
                   estimated_premium_percentage |-> estimated_premium_percentage]
       /\ ret' = financial_fit_score(monthly_income, estimated_premium_percentage)
  /\ pc' = "returned"
  /\ UNCHANGED <<catalogs, recommend_vars>>

\* Profiles that vary what the premium estimate reads: age, medical risk, smoker
\* and hazardous job, and the income.
PremiumProfiles ==
  {MakeUser([age |-> age, gender |-> "Male", marital_status |-> "Married",
             employment_type |-> "Permanent", hazardous_level |-> hazard,
             hazardous_activities |-> "", monthly_income |-> income,
             existing_insurance |-> "Yes", dependents_count |-> 0,
             primary_goal |-> "Savings", secondary_goal |-> "None",
             bmi |-> 248, smoker |-> smoker, travel |-> FALSE,
             dual_citizenship |-> FALSE, employer_scheme |-> TRUE],
            medical) :
     age \in {29, 30, 40, 41, 50, 51}, hazard \in {"Low", "High"},
     income \in {30000, 40000, 200000}, smoker \in {"No", "Yes"},
     medical \in {{}, {"gastrointestinal_conditions"}, {"chronic_disease"},
                  {"cancer_or_tumors"}}}

CallEstimatePolicyPremiumPercentage ==
  /\ pc = "idle"
  /\ \E u \in PremiumProfiles, policy_name \in PolicyNameChoices :
       /\ call' = [fn |-> "estimate_policy_premium_percentage",
                   policy_name |-> policy_name, features |-> derive_features(u)]
       /\ ret' = estimate_policy_premium_percentage(policy_name, derive_features(u))
  /\ pc' = "returned"
  /\ UNCHANGED <<catalogs, recommend_vars>>

\* EnsembleScorer.score_policy for one policy, every catalog text at similarity 0.
CallScorePolicy ==
  /\ pc = "idle"
  /\ \E u \in PremiumProfiles, policy_name \in DOMAIN POLICIES :
       /\ call' = [fn |-> "score_policy", user |-> u, policy_name |-> policy_name]
       /\ ret' = score_policy(u, derive_features(u), policy_name, POLICIES[policy_name],
                              [item \in CatalogItems |-> 0])
  /\ pc' = "returned"
  /\ UNCHANGED <<catalogs, recommend_vars>>

\* EnsembleScorer.score_rider for one rider name, in the catalog or not, with the
\* rider_data of a catalog rider and every text at similarity 0.
CallScoreRider ==
  /\ pc = "idle"
  /\ \E u \in PremiumProfiles, rider_name \in DOMAIN RIDERS \cup {"Unknown Rider"},
        data_name \in {"Hospital Cash", "Critical Illness"} :
       /\ call' = [fn |-> "score_rider", user |-> u, rider_name |-> rider_name,
                   data_name |-> data_name]
       /\ ret' = score_rider(u, derive_features(u), rider_name, RIDERS[data_name],
                             [item \in CatalogItems \cup {"Unknown Rider"} |-> 0])
  /\ pc' = "returned"
  /\ UNCHANGED <<catalogs, recommend_vars>>

\* The feature keys left out of a FeatureSet handed to a scorer: the keys the
\* scorers read, and two they do not.
ScorerFeatureKeys ==
  {"age", "income_band", "primary_goal", "secondary_goal", "employment_type",
   "medical_risk", "any_medical", "age_above_40", "dependents", "married",
   "chronic", "smoker", "bmi"}

\* FeatureSets that lack up to MaxAbsent keys.
PartialFeatureSets ==
  {Without(derive_features(u), absent) :
     u \in FieldProfiles, absent \in SubsetsUpTo(ScorerFeatureKeys, MaxAbsent)}

CallRuleBasedScorePolicyPartial ==
  /\ pc = "idle"
  /\ \E f \in PartialFeatureSets, policy_name \in DOMAIN POLICIES :
       /\ call' = [fn |-> "rule_based_score_policy_call", policy_name |-> policy_name,
                   features |-> f]
       /\ ret' = rule_based_score_policy_call(f, POLICIES[policy_name])
  /\ pc' = "returned"
  /\ UNCHANGED <<catalogs, recommend_vars>>

CallRuleBasedScoreRiderPartial ==
  /\ pc = "idle"
  /\ \E f \in PartialFeatureSets, rider_name \in DOMAIN RIDERS :
       /\ call' = [fn |-> "rule_based_score_rider_call", rider_name |-> rider_name,
                   features |-> f]
       /\ ret' = rule_based_score_rider_call(f, RIDERS[rider_name])
  /\ pc' = "returned"
  /\ UNCHANGED <<catalogs, recommend_vars>>

CallTriggerStrengthScorePartial ==
  /\ pc = "idle"
  /\ \E f \in PartialFeatureSets, rider_name \in DOMAIN RIDERS :
       /\ call' = [fn |-> "trigger_strength_score_call", rider_name |-> rider_name,
                   features |-> f]
       /\ ret' = trigger_strength_score_call(f, RIDERS[rider_name].triggers)
  /\ pc' = "returned"
  /\ UNCHANGED <<catalogs, recommend_vars>>

NextCalls ==
  \/ CallDeriveFeatures
  \/ CallFilterRiders
  \/ CallRuleBasedScorePolicy
  \/ CallTriggerStrengthScore
  \/ CallFinancialFitScore
  \/ CallEstimatePolicyPremiumPercentage
  \/ CallScorePolicy
  \/ CallScoreRider
  \/ CallRuleBasedScorePolicyPartial
  \/ CallRuleBasedScoreRiderPartial
  \/ CallTriggerStrengthScorePartial

SpecCalls == InitCoverage /\ [][NextCalls]_vars

(***************************************************************************)
(* explainability/shap_explainer.py: the top contributors                  *)
(***************************************************************************)

\* Contributions are in thousandths; the threshold 0.01 is 10 thousandths.
ContributionThreshold == 10

\* get_feature_names
FeatureNames ==
  <<"Age", "Income Level", "Has Dependents", "Number of Dependents", "Hazardous Job",
    "Medical Conditions", "Smoker", "BMI", "Married", "Age Above 40", "Chronic Disease",
    "Cardiovascular", "Rule Match Score", "Semantic Similarity", "Trigger Match",
    "Affordability">>

\* zip(feature_names, shap_values, feature_values): as long as the shortest.
Contributions(feature_names, shap_values, feature_values) ==
  [i \in 1..Min(Len(feature_names), Min(Len(shap_values), Len(feature_values))) |->
     [feature |-> feature_names[i], contribution |-> shap_values[i],
      value |-> feature_values[i]]]

\* A selection that lets a contribution of exactly 0.01 or -0.01 through.
get_top_contributors_inclusive(feature_names, shap_values, feature_values, top_n) ==
  LET contributions == Contributions(feature_names, shap_values, feature_values)
      is_positive(c) == c.contribution >= ContributionThreshold
      is_negative(c) == c.contribution <= -ContributionThreshold
      pos == SelectSeq(contributions, is_positive)
      neg == SelectSeq(contributions, is_negative)
  IN [positive |-> Take(SortDesc(pos, [i \in 1..Len(pos) |-> pos[i].contribution]), top_n),
      negative |-> Take(SortDesc(neg, [i \in 1..Len(neg) |-> -neg[i].contribution]), top_n)]

\* RecommendationExplainer._get_top_contributors: sorted(..., reverse=True)[:top_n]
\* of the contributions above 0.01 and sorted(...)[:top_n] of those below -0.01;
\* an ascending stable sort is a descending stable sort on the negated key.
get_top_contributors(feature_names, shap_values, feature_values, top_n) ==
  LET contributions == Contributions(feature_names, shap_values, feature_values)
      is_positive(c) == c.contribution > ContributionThreshold
      is_negative(c) == c.contribution < -ContributionThreshold
      pos == SelectSeq(contributions, is_positive)
      neg == SelectSeq(contributions, is_negative)
  IN [positive |-> Take(SortDesc(pos, [i \in 1..Len(pos) |-> pos[i].contribution]), top_n),
      negative |-> Take(SortDesc(neg, [i \in 1..Len(neg) |-> -neg[i].contribution]), top_n)]

\* The default of the top_n parameter, which explain_recommendation relies on.
DefaultTopN == 5

\* The number of features of a call.
MaxFeatures == 4

\* Contributions on both sides of the two thresholds, on them, and between them.
ContributionChoices == {-200, -11, -10, 0, 10, 11, 200}

CallGetTopContributors ==
  /\ pc = "idle"
  /\ \E n \in 0..MaxFeatures, top_n \in {1, 2, DefaultTopN} :
       \E shap_values \in [1..n -> ContributionChoices] :
         /\ call' = [fn |-> "_get_top_contributors", caller |-> "none",
                     feature_names |-> SubSeq(FeatureNames, 1, n),
                     shap_values |-> shap_values, top_n |-> top_n]
         /\ ret' = get_top_contributors(SubSeq(FeatureNames, 1, n), shap_values,
                                        [i \in 1..n |-> 0], top_n)
  /\ pc' = "returned"
  /\ UNCHANGED <<catalogs, recommend_vars>>

\* The call explain_recommendation makes, lines 174-180: the names of
\* get_feature_names, one contribution for each, and no top_n argument.  The
\* contributions of the four component scores vary; the other features are all at
\* a contribution of 0 or all at 0.2.
CallGetTopContributorsDefault ==
  /\ pc = "idle"
  /\ \E others \in {0, 200}, component \in [13..16 -> ContributionChoices] :
       LET shap_values == [i \in 1..Len(FeatureNames) |->
                             IF i \in DOMAIN component THEN component[i] ELSE others]
       IN /\ call' = [fn |-> "_get_top_contributors", caller |-> "explain_recommendation",
                      feature_names |-> FeatureNames,
                      shap_values |-> shap_values, top_n |-> DefaultTopN]
          /\ ret' = get_top_contributors(FeatureNames, shap_values,
                                         [i \in 1..Len(FeatureNames) |-> 0], DefaultTopN)
  /\ pc' = "returned"
  /\ UNCHANGED <<catalogs, recommend_vars>>

NextExplain ==
  \/ CallGetTopContributors
  \/ CallGetTopContributorsDefault

SpecExplain == InitCoverage /\ [][NextExplain]_vars

(***************************************************************************)
(* A process that serves one call after another                            *)
(***************************************************************************)

\* The profiles of the recommend calls of a serving process.
ServeProfiles ==
  {u \in PipelineProfiles :
     u.smoker = "No" /\ u.hazardous_level = "Low" /\ u.monthly_income = 30000}
  \cup {MainUser}

\* recommend(user, explain, top_riders) is called: its locals are those of InitCall.
CallRecommend ==
  /\ pc = "idle"
  /\ user' \in ServeProfiles
  /\ \E a \in ArgumentChoices : explain' = a[1] /\ top_riders' = a[2]
  /\ call' = [fn |-> "recommend"]
  /\ pc' = "start"
  /\ UNCHANGED <<catalogs, features, similarity, candidate_policies, scoring_vars,
                 result, ret>>

CallGetPolicyCoverage ==
  /\ pc = "idle"
  /\ \E policy_name \in PolicyNameChoices :
       /\ call' = [fn |-> "get_policy_coverage", policy_name |-> policy_name]
       /\ ret' = get_policy_coverage(policy_name)
  /\ pc' = "returned"
  /\ UNCHANGED <<catalogs, recommend_vars>>

\* The call has returned and the caller has taken its result: the locals of the
\* call are gone, the module-level catalogs stay as the call left them.
Respond ==
  /\ pc \in {"done", "returned"}
  /\ user' = MainUser
  /\ explain' = TRUE
  /\ top_riders' = 10
  /\ pc' = "idle"
  /\ features' = <<>>
  /\ similarity' = <<>>
  /\ candidate_policies' = <<>>
  /\ policy_scores' = <<>>
  /\ best_policy_name' = ""
  /\ user_risks' = {}
  /\ coverage_gaps' = {}
  /\ eligible_riders' = <<>>
  /\ rider_scores' = <<>>
  /\ gap_fillers' = <<>>
  /\ gap_index' = 1
  /\ gap_bonus' = <<>>
  /\ bonus_count' = <<>>
  /\ primary_riders' = <<>>
  /\ alternate_riders' = <<>>
  /\ result' = NoResult
  /\ call' = [fn |-> "none"]
  /\ ret' = {}
  /\ UNCHANGED catalogs

NextServe ==
  \/ CallRecommend
  \/ Next
  \/ CallGetPolicyCoverage
  \/ CallGetCombinedCoverage
  \/ CallPrioritizeRidersForGaps
  \/ CallAnalyzeCoverageCompleteness
  \/ Respond

SpecServe == InitCoverage /\ [][NextServe]_vars

(***************************************************************************)
(* Properties                                                              *)
(***************************************************************************)

Recommended == pc = "done" /\ result.kind = "recommendation"

FeaturesDerived == pc \notin {"start", "idle", "returned"}

CandidatesChosen ==
  pc \in {"score_policies", "gap_analysis", "score_riders", "prioritize", "bonus", "explain"}
  \/ Recommended

PoliciesScored ==
  pc \in {"gap_analysis", "score_riders", "prioritize", "bonus", "explain"} \/ Recommended

RisksIdentified == pc \in {"score_riders", "prioritize", "bonus", "explain"} \/ Recommended

RidersScored == pc \in {"prioritize", "bonus", "explain"} \/ Recommended

NoMedicalCondition(u) == \A field \in MedicalFields : ~u[field]

C2_GapBonusBounded ==
  RidersScored =>
    \A r \in DOMAIN rider_scores :
      bonus_count[r] > 0 =>
        /\ gap_bonus[r] = Min((rider_scores[r].gap_priority * 5 * RiderFinalUnit) \div 10000,
                              (15 * RiderFinalUnit) \div 100)
        /\ gap_bonus[r] <= (15 * RiderFinalUnit) \div 100
        /\ rider_scores[r].final_score <= RiderFinalUnit

\* C2 witness: a rider whose score before the bonus was so high that the clamp at
\* 1.0 decided its final score.
C2_Witness ==
  /\ RidersScored
  /\ \E r \in DOMAIN rider_scores :
       /\ bonus_count[r] > 0
       /\ gap_bonus[r] > 0
       /\ rider_scores[r].final_score = RiderFinalUnit
       /\ RiderWeightedSum(rider_scores[r].components.rule_score,
                           rider_scores[r].components.nlp_score,
                           rider_scores[r].components.trigger_score,
                           rider_scores[r].components.financial_score) + gap_bonus[r]
            > RiderFinalUnit

\* C3: within one pass the bonus is added to a rider's score at most once: once
\* the loop of Phase 7 is over, exactly once to an eligible rider that fills a gap of
\* the chosen policy and never to one that fills none; and the steps after the loop,
\* the coverage analysis among them, leave every rider's score as it is.
C3_BonusAppliedOnce ==
  [][/\ \A r \in DOMAIN bonus_count' : bonus_count'[r] <= 1
     /\ (pc' = "explain" \/ (pc' = "done" /\ result'.kind = "recommendation")) =>
          \A r \in Range(eligible_riders') :
            bonus_count'[r] = IF RIDER_COVERAGE[r] \cap coverage_gaps' # {} THEN 1 ELSE 0
     /\ pc = "explain" => rider_scores' = rider_scores /\ bonus_count' = bonus_count
     /\ (pc = "bonus" /\ pc' = "explain") =>
          rider_scores' = rider_scores /\ bonus_count' = bonus_count]_vars

\* C3 witness: a finished pass with explanations, one rider boosted and one not,
\* and primary riders handed to the coverage analysis.
C3_Witness ==
  /\ Recommended
  /\ explain
  /\ primary_riders # <<>>
  /\ \E r \in DOMAIN bonus_count : bonus_count[r] = 1
  /\ \E r \in DOMAIN bonus_count : bonus_count[r] = 0

RatioIs(ratio, covered, total) ==
  /\ ratio[2] > 0
  /\ 0 <= ratio[1]
  /\ ratio[1] <= ratio[2]
  /\ total = {} => ratio[1] = ratio[2]
  /\ total # {} => ratio[1] * Cardinality(total) = ratio[2] * Cardinality(covered \cap total)

\* C4: the coverage ratio of get_coverage_completeness_score and of
\* analyze_coverage_completeness is |covered /\ user risks| / |user risks|, lies
\* in [0,1], and is 1.0 when the user risk set is empty.
C4_CoverageRatio ==
  /\ (pc = "returned" /\ call.fn = "get_coverage_completeness_score") =>
       RatioIs(ret, call.covered_risks, call.total_risks)
  /\ (pc = "returned" /\ call.fn = "analyze_coverage_completeness") =>
       RatioIs(ret.coverage_ratio, ret.total_coverage, ret.user_risks)

\* C4 witness: a ratio strictly between 0 and 1 although a covered risk lies
\* outside the user's risks.
C4_Witness ==
  /\ pc = "returned"
  /\ call.fn = "get_coverage_completeness_score"
  /\ call.covered_risks \ call.total_risks # {}
  /\ 0 < ret[1]
  /\ ret[1] < ret[2]

\* The catalog lookup with an empty set for an unknown name.
CoverageOf(catalog, name) == IF name \in DOMAIN catalog THEN catalog[name] ELSE {}

\* C5: get_combined_coverage(policy, riders) contains get_policy_coverage(policy),
\* equals the policy's coverage united with the coverage of every listed rider, and
\* equals the policy's coverage when the list is empty; for known and unknown names.
C5_CombinedCoverage ==
  (pc = "returned" /\ call.fn = "get_combined_coverage") =>
    /\ get_policy_coverage(call.policy_name) \subseteq ret
    /\ ret = CoverageOf(POLICY_COVERAGE, call.policy_name)
               \cup UNION {CoverageOf(RIDER_COVERAGE, r) : r \in Range(call.rider_names)}
    /\ call.rider_names = <<>> => ret = get_policy_coverage(call.policy_name)

\* C5 witness: a known policy combined with two riders that add risks to it.
C5_Witness ==
  /\ pc = "returned"
  /\ call.fn = "get_combined_coverage"
  /\ call.policy_name \in DOMAIN POLICY_COVERAGE
  /\ Len(call.rider_names) = 2
  /\ Cardinality(ret) > Cardinality(POLICY_COVERAGE[call.policy_name]) + 1

\* C6: medical_risk is one of Low, Medium, High, Very High by the priority ladder:
\* cancer or cardiovascular gives Very High whatever the other flags; otherwise
\* chronic or respiratory gives High; otherwise any other flag gives Medium;
\* otherwise Low.
C6_MedicalRiskLadder ==
  FeaturesDerived =>
    LET top == user.cancer_or_tumors \/ user.cardiovascular_health_issue
        second == user.chronic_disease \/ user.respiratory_conditions
    IN /\ features.medical_risk \in {"Low", "Medium", "High", "Very High"}
       /\ top => features.medical_risk = "Very High"
       /\ (~top /\ second) => features.medical_risk = "High"
       /\ (~top /\ ~second /\ ~NoMedicalCondition(user)) => features.medical_risk = "Medium"
       /\ NoMedicalCondition(user) => features.medical_risk = "Low"

\* C6 witness: cancer together with a chronic disease and a lower-rung condition.
C6_Witness ==
  /\ FeaturesDerived
  /\ user.cancer_or_tumors
  /\ user.chronic_disease
  /\ user.gastrointestinal_conditions
  /\ ~user.cardiovascular_health_issue
  /\ features.medical_risk = "Very High"

\* C7: every final score the ensemble scorer produces, for a policy or a rider,
\* lies in [0,1] for every similarity in [-1,1].
C7_FinalScoreInUnitInterval ==
  /\ PoliciesScored =>
       \A p \in DOMAIN policy_scores :
         /\ 0 <= policy_scores[p].final_score
         /\ policy_scores[p].final_score <= PolicyFinalUnit(POLICIES[p])
  /\ RidersScored =>
       \A r \in DOMAIN rider_scores :
         /\ 0 <= rider_scores[r].final_score
         /\ rider_scores[r].final_score <= RiderFinalUnit

\* C8: for the profile of main.py, filter_policies returns FlexLife among its
\* candidates, FlexLife's medical-eligibility sub-score is 1.0, and the user's risks
\* contain death and family_protection and not maternity.
C8_MainUserScenario ==
  user = MainUser =>
    /\ pc # "relaxed"
    /\ pc # "done" \/ result.kind = "recommendation"
    /\ CandidatesChosen =>
         /\ candidate_policies = filter_policies(features)
         /\ "FlexLife" \in Range(candidate_policies)
    /\ PoliciesScored =>
         policy_scores["FlexLife"].components.rule_breakdown.medical_eligibility
           = PolicySubUnit(POLICIES["FlexLife"])
    /\ RisksIdentified =>
         /\ {"death", "family_protection"} \subseteq user_risks
         /\ "maternity" \notin user_risks

\* C8 witness: the pass for the profile of main.py has returned a recommendation.
C8_Witness == user = MainUser /\ Recommended /\ features.medical_risk = "Low"

Age70LowIncomeHealthy(u) ==
  u.age_nearest_bday = 70 /\ u.monthly_income = 30000 /\ NoMedicalCondition(u)

\* C9: a profile with age 70, monthly income 30,000 and no medical condition
\* always gets a scored candidate set, from the strict filter or from the relaxed
\* pass, and that set contains Health360 and neither ClickLife nor FlexLife.
C9_Age70Scenario ==
  Age70LowIncomeHealthy(user) =>
    /\ pc = "done" => result.kind # "error"
    /\ CandidatesChosen =>
         /\ "Health360" \in Range(candidate_policies)
         /\ "ClickLife" \notin Range(candidate_policies)
         /\ "FlexLife" \notin Range(candidate_policies)

\* C9 witness: such a profile whose goal is not medical, so that the strict
\* filter returned nothing and the relaxed pass chose the candidates.
C9_Witness ==
  /\ Age70LowIncomeHealthy(user)
  /\ user.primary_goal = "Savings"
  /\ user.existing_insurance = "Yes"
  /\ pc = "score_policies"
  /\ filter_policies(features) = <<>>
  /\ candidate_policies = <<"Health360">>

\* The rule table of the risk analysis, read risk by risk.
RiskApplies(f, risk) ==
  CASE risk = "death" -> TRUE
    [] risk = "family_protection" -> f.dependents \/ f.married
    [] risk = "disability" ->
         f.dependents \/ f.family_responsibility \/ f.hazardous_job \/ f.hazardous_activities
    [] risk = "hospitalization" -> f.any_medical \/ f.age_above_40
    [] risk = "surgery" -> f.any_medical
    [] risk = "chronic_care" -> f.chronic
    [] risk = "outpatient" -> f.chronic
    [] risk = "critical_illness" ->
         f.age_above_40 \/ f.cardio \/ f.cancer \/ f.smoker \/ f.bmi_high
    [] risk = "accident" -> f.hazardous_job \/ f.hazardous_activities
    [] risk = "retirement" -> f.goal_retirement \/ f.age_above_45
    [] risk = "maternity" -> f.female_childbearing_age
    [] risk = "child_health" -> f.dependents
    [] risk = "overseas_medical" -> f.frequent_travel \/ f.dual_citizenship
    [] risk = "funeral" -> f.low_income /\ f.dependents
    [] OTHER -> FALSE

\* C10: identify_user_risks returns exactly the union of the rule-table branches
\* that fire (death always), each risk once, and always a subset of RISK_TYPES.
C10_UserRisksAreRuleTable ==
  /\ RisksIdentified =>
       /\ user_risks \subseteq RISK_TYPES
       /\ \A risk \in RISK_TYPES : risk \in user_risks <=> RiskApplies(features, risk)
  /\ (pc = "done" /\ result.kind = "error") =>
       /\ result.user_risks \subseteq RISK_TYPES
       /\ \A risk \in RISK_TYPES : risk \in result.user_risks <=> RiskApplies(features, risk)

\* C10 witness: the 42-year-old smoker with BMI 32, for whom the age branch and
\* the risk-factor branch both yield critical_illness.
C10_Witness ==
  /\ RisksIdentified
  /\ user.age_nearest_bday = 42
  /\ user.smoker = "Yes"
  /\ user.bmi = 320
  /\ NoMedicalCondition(user)
  /\ {"critical_illness", "hospitalization"} \subseteq user_risks
  /\ "surgery" \notin user_risks

\* C11: whenever a key that derive_features reads is absent from the profile, the
\* call fails with an error naming an absent key and returns no FeatureSet; no
\* absent key is replaced by a default.
C11_AbsentFieldRaises ==
  (pc = "returned" /\ call.fn = "derive_features"
     /\ AllFields \ DOMAIN call.user # {}) =>
    /\ ret.kind = "KeyError"
    /\ ret.key \in AllFields \ DOMAIN call.user

PastFiltering == pc \in {"score_policies", "gap_analysis", "score_riders", "prioritize",
                         "bonus", "explain", "done"}

NoPolicyEligible(f) ==
  \A policy_name \in DOMAIN POLICIES :
    ~StrictPolicyPasses(policy_name, f) /\ ~RelaxedPolicyPasses(policy_name, f)

\* C12: when neither the strict filter nor the relaxed pass keeps a policy,
\* recommend ends with an eligibility failure: the result holds an error message and
\* the user's risk set and nothing else, and no policy or rider has been scored;
\* an error result is returned in no other case.
C12_EligibilityFailure ==
  /\ (PastFiltering /\ NoPolicyEligible(features)) =>
       /\ pc = "done"
       /\ result.kind = "error"
       /\ DOMAIN result = {"kind", "error", "user_risks"}
       /\ result.user_risks = identify_user_risks(features)
       /\ policy_scores = <<>>
       /\ rider_scores = <<>>
       /\ best_policy_name = ""
  /\ (pc = "done" /\ result.kind = "error") => NoPolicyEligible(features)

\* C12 witness: an applicant of 81 is refused by every product and the failure
\* carries the risk set.
C12_Witness ==
  /\ pc = "done"
  /\ result.kind = "error"
  /\ user.age_nearest_bday = 81
  /\ {"death", "retirement"} \subseteq result.user_risks
  /\ policy_scores = <<>>

NoDuplicates(s) == \A i, j \in 1..Len(s) : s[i] = s[j] => i = j

NonIncreasing(s) ==
  \A i \in 1..(Len(s) - 1) :
    rider_scores[s[i]].final_score >= rider_scores[s[i + 1]].final_score

\* C13: in every successful result each primary rider's final score (after the
\* gap bonus) is at least 0.65 and each alternate rider's is in [0.45, 0.65); no
\* rider is in both lists or twice in one, no rider below 0.45 is in either, each
\* list is ordered by final score, highest first, and has at most top_riders entries.
C13_RiderLists ==
  Recommended =>
    /\ result.primary_riders = primary_riders
    /\ result.alternate_riders = alternate_riders
    /\ \A r \in Range(primary_riders) :
         100 * rider_scores[r].final_score >= 65 * RiderFinalUnit
    /\ \A r \in Range(alternate_riders) :
         /\ 100 * rider_scores[r].final_score >= 45 * RiderFinalUnit
         /\ 100 * rider_scores[r].final_score < 65 * RiderFinalUnit
    /\ Range(primary_riders) \cap Range(alternate_riders) = {}
    /\ NoDuplicates(primary_riders) /\ NoDuplicates(alternate_riders)
    /\ \A r \in DOMAIN rider_scores :
         100 * rider_scores[r].final_score < 45 * RiderFinalUnit =>
           r \notin Range(primary_riders) \cup Range(alternate_riders)
    /\ NonIncreasing(primary_riders) /\ NonIncreasing(alternate_riders)
    /\ Len(primary_riders) <= top_riders
    /\ Len(alternate_riders) <= top_riders

\* C13 witness: more than top_riders riders reach 0.65, so the primary list is
\* cut, and there are alternates and a rider below 0.45 as well.
C13_Witness ==
  /\ Recommended
  /\ Len(primary_riders) = top_riders
  /\ Cardinality({r \in DOMAIN rider_scores :
                    100 * rider_scores[r].final_score >= 65 * RiderFinalUnit}) > top_riders
  /\ alternate_riders # <<>>
  /\ \E r \in DOMAIN rider_scores : 100 * rider_scores[r].final_score < 45 * RiderFinalUnit

C15_RiderEligibility ==
  (pc = "returned" /\ call.fn = "filter_riders") =>
    /\ \A name \in DOMAIN RIDERS :
         name \in Range(ret) <=>
           /\ RIDERS[name].standalone
                \/ name \in POLICIES[call.policy_name].attachable_riders
           /\ \E t \in Range(RIDERS[name].triggers) : FeatureTruthy(call.features, t)
    /\ Range(ret) \subseteq DOMAIN RIDERS
    /\ \A i, j \in 1..Len(ret) :
         i < j => \E a, b \in 1..Len(RiderOrder) :
                    a < b /\ RiderOrder[a] = ret[i] /\ RiderOrder[b] = ret[j]

\* C15 witness: a rider is returned on one satisfied trigger out of several,
\* and an attachable-only rider with a satisfied trigger is left out because the
\* policy does not list it.
C15_Witness ==
  /\ pc = "returned"
  /\ call.fn = "filter_riders"
  /\ \E name \in Range(ret) :
       /\ Len(RIDERS[name].triggers) > 1
       /\ Cardinality({t \in Range(RIDERS[name].triggers) :
                         FeatureTruthy(call.features, t)}) = 1
  /\ \E name \in DOMAIN RIDERS \ Range(ret) :
       /\ ~RIDERS[name].standalone
       /\ \E t \in Range(RIDERS[name].triggers) : FeatureTruthy(call.features, t)

\* The constraints the relaxed pass retains, stated on the catalog entry.
RetainedConstraints(policy_name, f) ==
  /\ POLICIES[policy_name].age_range[1] <= f.age
  /\ f.age <= POLICIES[policy_name].age_range[2]
  /\ f.income_band \in POLICIES[policy_name].income_band
  /\ "Any" \in POLICIES[policy_name].employment_types
       \/ f.employment_type \in POLICIES[policy_name].employment_types
  /\ policy_name = "ClickLife" => f.medical_risk = "Low"
  /\ policy_name = "FlexLife" => f.medical_risk # "Very High"
  /\ POLICIES[policy_name].requires_employer => f.group_policy

\* C16: the relaxed pass runs only when the strict filter returned nothing, and
\* its candidates are exactly the catalog policies that satisfy the age, income,
\* employment, product medical-risk and employer constraints, whatever the primary
\* goal; when the strict filter returned a candidate, the scored candidates are
\* exactly the strict result.
C16_RelaxedPass ==
  /\ pc = "relaxed" => filter_policies(features) = <<>>
  /\ (PastFiltering /\ ~(pc = "done" /\ result.kind = "error")) =>
       IF filter_policies(features) # <<>>
       THEN candidate_policies = filter_policies(features)
       ELSE /\ Range(candidate_policies)
                 = {policy_name \in DOMAIN POLICIES : RetainedConstraints(policy_name, features)}
            /\ NoDuplicates(candidate_policies)
  /\ (pc = "done" /\ result.kind = "error") =>
       \A policy_name \in DOMAIN POLICIES : ~RetainedConstraints(policy_name, features)

\* C16 witness: the relaxed pass chose candidates whose goals the user does not
\* have, and left FlexLife out for its medical-risk exclusion alone.
C16_Witness ==
  /\ pc = "score_policies"
  /\ filter_policies(features) = <<>>
  /\ \E policy_name \in Range(candidate_policies) :
       features.primary_goal \notin POLICIES[policy_name].goals
  /\ "FlexLife" \notin Range(candidate_policies)
  /\ features.medical_risk = "Very High"
  /\ RelaxedPolicyPassesNoMedical("FlexLife", features)

\* C17: recommend never selects Life+ as the winning policy for a user who is
\* neither married nor has dependents, whether the candidates came from the strict
\* filter or from the relaxed pass.
C17_FamilyRequirement ==
  (PoliciesScored /\ best_policy_name = "Life+") => features.family_responsibility

\* The medical-eligibility table of the specification, in tenths.
MedicalEligibilityTable(policy_name, medical_risk) ==
  IF policy_name = "ClickLife" THEN (IF medical_risk = "Low" THEN 10 ELSE 0)
  ELSE IF policy_name = "FlexLife"
  THEN (CASE medical_risk = "Very High" -> 0
          [] medical_risk = "High" -> 5
          [] OTHER -> 10)
  ELSE CASE medical_risk = "Low" -> 10
         [] medical_risk = "Medium" -> 9
         [] medical_risk = "High" -> 7
         [] medical_risk = "Very High" -> 5

\* C18: rule_based_score_policy, called with a catalog entry, gives ClickLife
\* the medical eligibility 1.0 for Low risk and 0.0 otherwise, FlexLife 0.0 for Very
\* High, 0.5 for High and 1.0 otherwise, and every other policy the shared ladder
\* Low 1.0, Medium 0.9, High 0.7, Very High 0.5.
C18_MedicalEligibilityTable ==
  (pc = "returned" /\ call.fn = "rule_based_score_policy") =>
    ret.breakdown.medical_eligibility
      = SubTenths(MedicalEligibilityTable(call.policy_name, call.features.medical_risk),
                  POLICIES[call.policy_name])

\* The sub-scores of the rule score, from the catalog entry, in tenths of a
\* sub-score times the age span (the unit in which the age fit is exact).
AgeFitIs(f, policy) ==
  IF f.age < policy.age_range[1] \/ f.age > policy.age_range[2] THEN 0
  ELSE 10 * (policy.age_range[2] - policy.age_range[1])
         - 3 * Abs(2 * f.age - (policy.age_range[1] + policy.age_range[2]))

BandNumber(band) == CASE band = "Low" -> 0 [] band = "Mid" -> 1 [] band = "High" -> 2

IncomeFitIs(f, policy) ==
  IF f.income_band \in policy.income_band THEN 10
  ELSE IF \E band \in policy.income_band :
            Abs(BandNumber(band) - BandNumber(f.income_band)) = 1
  THEN 7 ELSE 3

GoalAlignmentIs(f, policy) ==
  IF f.primary_goal \in policy.goals THEN 10
  ELSE IF f.secondary_goal \in policy.goals THEN 5 ELSE 1

EmploymentFitIs(f, policy) ==
  IF "Any" \in policy.employment_types \/ f.employment_type \in policy.employment_types
  THEN 10 ELSE 2

\* C19: rule_based_score_policy returns 0.25 age_fit + 0.20 income_fit + 0.35
\* goal_alignment + 0.10 employment_fit + 0.10 medical_eligibility, with age_fit 0
\* outside the age range and 1 - 0.3 |age - midpoint| / (half range) inside,
\* income_fit 1.0 / 0.7 / 0.3 by band distance, goal_alignment 1.0 / 0.5 / 0.1 and
\* employment_fit 1.0 / 0.2; the result is in [0,1].
C19_PolicyRuleScore ==
  (pc = "returned" /\ call.fn = "rule_based_score_policy") =>
    LET policy == POLICIES[call.policy_name]
        f == call.features
        span == policy.age_range[2] - policy.age_range[1]
        b == ret.breakdown
    IN /\ b.age_fit = AgeFitIs(f, policy)
       /\ b.income_fit = IncomeFitIs(f, policy) * span
       /\ b.goal_alignment = GoalAlignmentIs(f, policy) * span
       /\ b.employment_fit = EmploymentFitIs(f, policy) * span
       /\ ret.score = 25 * b.age_fit + 20 * b.income_fit + 35 * b.goal_alignment
                        + 10 * b.employment_fit + 10 * b.medical_eligibility
       /\ 0 <= ret.score
       /\ ret.score <= 100 * 10 * span
       /\ (2 * f.age = policy.age_range[1] + policy.age_range[2]) => b.age_fit = 10 * span
       /\ f.age \in {policy.age_range[1], policy.age_range[2]} => b.age_fit = 7 * span

\* C19 witness: an age at the end of the range (age fit 0.7), an adjacent
\* income band (0.7), a secondary-goal match (0.5) and a foreign employment type (0.2).
C19_Witness ==
  /\ pc = "returned"
  /\ call.fn = "rule_based_score_policy"
  /\ call.policy_name = "FlexLife"
  /\ call.features.age = 60
  /\ call.features.income_band = "Low"
  /\ call.features.primary_goal = "Family protection"
  /\ call.features.secondary_goal = "Savings"
  /\ call.features.employment_type = "Contract"
  /\ ret.breakdown.age_fit = 7 * 35
  /\ ret.breakdown.income_fit = 7 * 35
  /\ ret.breakdown.goal_alignment = 5 * 35
  /\ ret.breakdown.employment_fit = 2 * 35

\* C20: trigger_strength_score returns the fraction of the declared triggers
\* that are satisfied (0.5 when none is declared), and its breakdown always holds
\* the matched and the unmatched trigger lists, which together are the declared
\* triggers and share no name.
C20_TriggerStrength ==
  (pc = "returned" /\ call.fn = "trigger_strength_score") =>
    LET satisfied == {i \in 1..Len(call.triggers) :
                        FeatureTruthy(call.features, call.triggers[i])}
    IN /\ IF call.triggers = <<>>
          THEN 2 * ret.score = RiderCompUnit
          ELSE ret.score * Len(call.triggers) = Cardinality(satisfied) * RiderCompUnit
       /\ {"matched_triggers", "unmatched_triggers"} \subseteq DOMAIN ret.breakdown
       /\ Range(ret.breakdown.matched_triggers) \cup Range(ret.breakdown.unmatched_triggers)
            = Range(call.triggers)
       /\ Range(ret.breakdown.matched_triggers) \cap Range(ret.breakdown.unmatched_triggers)
            = {}

\* The tier of a premium percentage p, in tenths, with its status.
FinancialTier(p) ==
  IF p < 5 * PctUnit THEN <<10, "highly_affordable">>
  ELSE IF p < 10 * PctUnit THEN <<8, "affordable">>
  ELSE IF p < 15 * PctUnit THEN <<5, "moderate">>
  ELSE <<2, "expensive">>

RECURSIVE WeightSum(_, _)
WeightSum(gaps, known) ==
  IF known = <<>> THEN 50 * Cardinality(gaps)
  ELSE (IF Head(known)[1] \in gaps THEN Head(known)[2] ELSE 0)
       + WeightSum(gaps \ {Head(known)[1]}, Tail(known))

\* The criticality weights in hundredths: "death" the highest, "funeral" the lowest.
CriticalityTable ==
  << <<"death", 100>>, <<"critical_illness", 95>>, <<"disability", 90>>,
     <<"family_protection", 90>>, <<"hospitalization", 85>>, <<"chronic_care", 80>>,
     <<"surgery", 75>>, <<"accident", 70>>, <<"retirement", 70>>, <<"maternity", 65>>,
     <<"child_health", 60>>, <<"outpatient", 50>>, <<"overseas_medical", 40>>,
     <<"organ_transplant", 40>>, <<"funeral", 30>> >>

\* How often a name occurs in a list of names.
Occurrences(names, name) == Cardinality({i \in 1..Len(names) : names[i] = name})

\* C22: prioritize_riders_for_gaps returns exactly the listed riders whose covered
\* risks intersect the gaps, each with filled_gaps = rider coverage /\ gaps
\* (non-empty, within the gaps) and priority_score = the sum of the criticality
\* weights over filled_gaps, ordered by priority_score non-increasing; and
\* calculate_gap_priority weighs a risk type outside its table 0.5.
C22_GapPrioritization ==
  /\ (pc = "returned" /\ call.fn = "prioritize_riders_for_gaps") =>
       LET fills(name) == CoverageOf(RIDER_COVERAGE, name) \cap call.coverage_gaps # {}
           returned == [i \in 1..Len(ret) |-> ret[i].rider_name]
       IN /\ \A name \in Range(call.available_riders) \cup Range(returned) :
               Occurrences(returned, name)
                 = IF fills(name) THEN Occurrences(call.available_riders, name) ELSE 0
          /\ \A i \in 1..Len(ret) :
               /\ ret[i].filled_gaps
                    = CoverageOf(RIDER_COVERAGE, ret[i].rider_name) \cap call.coverage_gaps
               /\ ret[i].filled_gaps # {}
               /\ ret[i].filled_gaps \subseteq call.coverage_gaps
               /\ ret[i].priority_score = WeightSum(ret[i].filled_gaps, CriticalityTable)
          /\ \A i \in 1..(Len(ret) - 1) : ret[i].priority_score >= ret[i + 1].priority_score
  /\ (pc = "returned" /\ call.fn = "calculate_gap_priority") =>
       ret = WeightSum(call.gaps, CriticalityTable)

\* Two riders were listed lowest priority first and are returned highest first.
C22_Witness ==
  /\ pc = "returned"
  /\ call.fn = "prioritize_riders_for_gaps"
  /\ Len(ret) = 2
  /\ Len(call.available_riders) = 2
  /\ ret[1].rider_name = call.available_riders[2]
  /\ ret[1].priority_score > ret[2].priority_score

\* A step of recommend that adds a gap bonus to some rider's score.
BonusStep == \E r \in DOMAIN bonus_count' : r \in DOMAIN bonus_count /\ bonus_count'[r] > bonus_count[r]

\* Some rider has had its bonus.
BonusApplied == \E r \in DOMAIN bonus_count : bonus_count[r] > 0

\* C23: a gap bonus is added only when the winning policy has been chosen and every
\* eligible rider of that policy has its ensemble score, and only while the riders
\* are not yet split into the primary and alternate lists; once a bonus has been
\* added, the chosen policy, the set of scored riders and every rider's component
\* scores stay as they are, and a final score changes only by a bonus step.
C23_BonusOrdering ==
  [][/\ BonusStep =>
          /\ best_policy_name \in Range(candidate_policies)
          /\ DOMAIN policy_scores = Range(candidate_policies)
          /\ eligible_riders
               = filter_riders(best_policy_name, POLICIES[best_policy_name], features)
          /\ DOMAIN rider_scores = Range(eligible_riders)
          /\ \A r \in Range(eligible_riders) :
               rider_scores[r].components
                 = score_rider(user, features, r, RIDERS[r], similarity).components
          /\ pc = "bonus"
          /\ primary_riders = <<>> /\ alternate_riders = <<>>
          /\ primary_riders' = <<>> /\ alternate_riders' = <<>>
          /\ result = NoResult
     /\ (pc \in {"explain", "done"} \/ primary_riders # <<>> \/ alternate_riders # <<>>) =>
          ~BonusStep
     /\ BonusApplied =>
          /\ best_policy_name' = best_policy_name
          /\ policy_scores' = policy_scores
          /\ eligible_riders' = eligible_riders
          /\ DOMAIN rider_scores' = DOMAIN rider_scores
          /\ \A r \in DOMAIN rider_scores :
               /\ rider_scores'[r].components = rider_scores[r].components
               /\ rider_scores'[r].final_score # rider_scores[r].final_score =>
                    bonus_count'[r] = bonus_count[r] + 1]_vars

\* A finished pass in which a rider had its bonus and riders were split into both lists.
C23_Witness ==
  /\ Recommended
  /\ BonusApplied
  /\ primary_riders # <<>>
  /\ alternate_riders # <<>>

\* C24: the positive list of the top contributors holds the features with
\* contribution > 0.01, highest first, and the negative list those with contribution
\* < -0.01, most negative first; each is the first N of its ordering (N = 5 when
\* explain_recommendation asks), so a listed feature never ranks below an omitted
\* one; the lists are disjoint and no feature with |contribution| <= 0.01 is listed.
C24_TopContributors ==
  (pc = "returned" /\ call.fn = "_get_top_contributors") =>
    LET contribution == [i \in 1..Len(call.shap_values) |-> call.shap_values[i]]
        names == call.feature_names
        above == {i \in 1..Len(names) : contribution[i] > ContributionThreshold}
        below == {i \in 1..Len(names) : contribution[i] < -ContributionThreshold}
        listed(list) == {i \in 1..Len(names) : \E k \in 1..Len(list) :
                           list[k].feature = names[i]}
        pos == ret.positive
        neg == ret.negative
    IN /\ call.caller = "explain_recommendation" => call.top_n = 5
       /\ Len(pos) = Min(Cardinality(above), call.top_n)
       /\ Len(neg) = Min(Cardinality(below), call.top_n)
       /\ listed(pos) \subseteq above
       /\ listed(neg) \subseteq below
       /\ Cardinality(listed(pos)) = Len(pos)
       /\ Cardinality(listed(neg)) = Len(neg)
       /\ listed(pos) \cap listed(neg) = {}
       /\ \A k \in 1..Len(pos) :
            \E i \in above : pos[k].feature = names[i] /\ pos[k].contribution = contribution[i]
       /\ \A k \in 1..Len(neg) :
            \E i \in below : neg[k].feature = names[i] /\ neg[k].contribution = contribution[i]
       /\ \A k \in 1..(Len(pos) - 1) : pos[k].contribution >= pos[k + 1].contribution
       /\ \A k \in 1..(Len(neg) - 1) : neg[k].contribution <= neg[k + 1].contribution
       /\ \A i \in above \ listed(pos) : \A k \in 1..Len(pos) :
            pos[k].contribution >= contribution[i]
       /\ \A i \in below \ listed(neg) : \A k \in 1..Len(neg) :
            neg[k].contribution <= contribution[i]

\* More features than N lie above the threshold, one lies exactly on it, and the
\* positive list was cut to N.
C24_Witness ==
  /\ pc = "returned"
  /\ call.fn = "_get_top_contributors"
  /\ Len(ret.positive) = call.top_n
  /\ Cardinality({i \in 1..Len(call.shap_values) :
                    call.shap_values[i] > ContributionThreshold}) > call.top_n
  /\ \E i \in 1..Len(call.shap_values) : call.shap_values[i] = ContributionThreshold
  /\ ret.negative # <<>>

\* C25: rule_based_score_policy, rule_based_score_rider and trigger_strength_score
\* return a score, and raise nothing, for a FeatureSet that lacks features they
\* consult.
C25_ScorersTolerateMissingFeatures ==
  (pc = "returned"
   /\ call.fn \in {"rule_based_score_policy_call", "rule_based_score_rider_call",
                   "trigger_strength_score_call"}) =>
    /\ ret.kind = "return"
    /\ ret.value.score >= 0

\* C26: with the shipped catalog recommend reports an eligibility failure exactly
\* when the age lies outside 0..80: outside it no policy passes either pass, and
\* inside it, whatever the income, employment, goal and medical flags, Health360
\* passes the relaxed pass, so the scored candidate set is non-empty.
C26_FailureOnlyOutsideAgeRange ==
  PastFiltering =>
    LET in_range == 0 <= features.age /\ features.age <= 80
    IN /\ (pc = "done" /\ result.kind = "error") <=> ~in_range
       /\ in_range =>
            /\ RelaxedPolicyPasses("Health360", features)
            /\ candidate_policies # <<>>
            /\ filter_policies(features) = <<>> => "Health360" \in Range(candidate_policies)
            /\ pc \notin {"score_policies"} => DOMAIN policy_scores = Range(candidate_policies)
       /\ ~in_range => candidate_policies = <<>> /\ NoPolicyEligible(features)

\* An unemployed applicant of 80 who wants to travel: no policy passes the strict
\* filter, Health360 alone passes the relaxed pass and is scored.
C26_Witness ==
  /\ pc = "gap_analysis"
  /\ features.age = 80
  /\ features.employment_type = "Unemployed"
  /\ filter_policies(features) = <<>>
  /\ candidate_policies = <<"Health360">>
  /\ DOMAIN policy_scores = {"Health360"}

\* Two candidates have the same final score.
PolicyScoreTie(scores, a, b) ==
  ~PolicyScoreLess(scores, a, b) /\ ~PolicyScoreLess(scores, b, a)

\* C27: the policy recommend chooses is a scored candidate whose final score is
\* at least that of every other candidate, and among candidates with that same
\* score it is the first in catalog order; the result names this policy with its
\* score.
C27_BestPolicy ==
  /\ PoliciesScored =>
       /\ best_policy_name \in Range(candidate_policies)
       /\ DOMAIN policy_scores = Range(candidate_policies)
       /\ \A p \in Range(candidate_policies) :
            /\ ~PolicyScoreLess(policy_scores, best_policy_name, p)
            /\ PolicyScoreTie(policy_scores, best_policy_name, p) =>
                 IndexOf(PolicyOrder, best_policy_name) <= IndexOf(PolicyOrder, p)
  /\ Recommended =>
       /\ result.policy = best_policy_name
       /\ result.policy_score = policy_scores[best_policy_name].final_score

\* The chosen policy shares the highest score with a candidate later in the catalog.
C27_Witness ==
  /\ Recommended
  /\ \E p \in Range(candidate_policies) :
       /\ p # result.policy
       /\ PolicyScoreTie(policy_scores, result.policy, p)
       /\ IndexOf(PolicyOrder, result.policy) < IndexOf(PolicyOrder, p)

\* C28: in every successful result with explanations, the gaps of
\* coverage_analysis (policy plus primary riders) are among the top-level
\* coverage_gaps (policy alone), the gaps and the covered risks of the analysis
\* partition the user's risk set, and its coverage ratio is 1.0 exactly when its gap
\* set is empty.
C28_RidersNeverWidenGaps ==
  (Recommended /\ result.explained) =>
    LET analysis == result.coverage_analysis
    IN /\ analysis.coverage_gaps \subseteq result.coverage_gaps
       /\ result.coverage_gaps = result.user_risks \ CoverageOf(POLICY_COVERAGE, result.policy)
       /\ analysis.user_risks = result.user_risks
       /\ analysis.coverage_gaps \cup analysis.covered_risks = result.user_risks
       /\ analysis.coverage_gaps \cap analysis.covered_risks = {}
       /\ (analysis.coverage_ratio[1] = analysis.coverage_ratio[2])
            <=> (analysis.coverage_gaps = {})
       /\ analysis.coverage_ratio[2] > 0

\* Primary riders close some, not all, of the gaps the policy leaves.
C28_Witness ==
  /\ Recommended
  /\ result.explained
  /\ result.primary_riders # <<>>
  /\ result.coverage_analysis.coverage_gaps # result.coverage_gaps
  /\ result.coverage_analysis.coverage_gaps # {}

\* C29: filter_riders returns the standalone rider Hospital Cash for every
\* FeatureSet of derive_features and every policy, because medical_risk is always
\* one of four non-empty strings, which count as a satisfied trigger; and every
\* rider filter_riders returns has a trigger-strength score above 0.
C29_HospitalCashAlwaysEligible ==
  (pc = "returned" /\ call.fn = "filter_riders") =>
    /\ call.features.medical_risk \in {"Low", "Medium", "High", "Very High"}
    /\ "Hospital Cash" \in Range(ret)
    /\ \A i \in 1..Len(ret) :
         trigger_strength_score(call.features, RIDERS[ret[i]].triggers).score > 0

\* Hospital Cash is returned for a user who is not low-income and whose medical
\* risk is Low, with half of its triggers satisfied.
C29_Witness ==
  /\ pc = "returned"
  /\ call.fn = "filter_riders"
  /\ ~call.features.low_income
  /\ call.features.medical_risk = "Low"
  /\ "Hospital Cash" \in Range(ret)
  /\ 2 * trigger_strength_score(call.features, RIDERS["Hospital Cash"].triggers).score
       = RiderCompUnit

\* The profile u with another monthly income.
WithIncome(u, income) == [u EXCEPT !.monthly_income = income]

\* The profiles that differ from u in monthly_income alone and fall in the same
\* income band.
SameBandProfiles(u) ==
  {WithIncome(u, income) : income \in
     {i \in IncomeChoices \cup {u.monthly_income, 40000} :
        derive_features(WithIncome(u, i)).income_band = derive_features(u).income_band}}

\* C30: score_rider's financial score is 1.0 with status highly_affordable for
\* every rider name, in the catalog or not, and every monthly income; and the
\* financial score and status that score_policy and score_rider return are the
\* same for every profile that differs in monthly_income alone within the same
\* income band.
C30_AffordabilityIgnoresIncome ==
  /\ (pc = "returned" /\ call.fn = "score_rider") =>
       /\ ret.components.financial_score = RiderCompUnit
       /\ ret.components.financial_breakdown.status = "highly_affordable"
       /\ estimate_rider_premium_percentage(call.rider_name) <= 2 * PctUnit
       /\ \A v \in SameBandProfiles(call.user) :
            LET other == score_rider(v, derive_features(v), call.rider_name,
                                     RIDERS[call.data_name],
                                     [item \in CatalogItems \cup {"Unknown Rider"} |-> 0])
            IN /\ other.components.financial_score = ret.components.financial_score
               /\ other.components.financial_breakdown.status
                    = ret.components.financial_breakdown.status
  /\ (pc = "returned" /\ call.fn = "score_policy") =>
       \A v \in SameBandProfiles(call.user) :
         LET other == score_policy(v, derive_features(v), call.policy_name,
                                   POLICIES[call.policy_name],
                                   [item \in CatalogItems |-> 0])
         IN /\ other.components.financial_score = ret.components.financial_score
            /\ other.components.financial_breakdown.status
                 = ret.components.financial_breakdown.status

\* score_rider has scored a rider name outside the catalog for a low-band income
\* that shares its band with a different income.
C30_Witness ==
  /\ pc = "returned"
  /\ call.fn = "score_rider"
  /\ call.rider_name \notin DOMAIN RIDERS
  /\ call.user.monthly_income = 30000
  /\ \E v \in SameBandProfiles(call.user) : v.monthly_income = 40000
  /\ ret.components.financial_breakdown.status = "highly_affordable"

====
